---- MODULE Spec2Model ----
(***************************************************************************)
(* ClientSession of aiohttp/client.py: the session life cycle (close,      *)
(* detach, the closed property) and the request state machine of           *)
(* ClientSession._request (timeout handle, trace signals, the redirect     *)
(* loop).  One action covers the code between two suspension points        *)
(* (await) of the coroutine.                                               *)
(***************************************************************************)
EXTENDS Integers, Sequences, FiniteSets, TLC

\* ---------------------------------------------------------------- bounds
NumObservers == 2      \* trace configs of the session
NumClosers == 2        \* tasks that may call close()
MaxRedirectsArg == 2   \* largest max_redirects argument tried
MaxHops == 2           \* connections one request may acquire in the model
MaxCloseLog == 2       \* returned close() calls are counted up to this
MaxHeaders == 3        \* longest header list a caller passes

NumRequests == 2       \* calls of _request running on one session
Observers == 1..NumObservers
Closers == 1..NumClosers
Tasks == 1..NumRequests

\* ------------------------------------------------------------- constants
Methods == {"GET", "POST", "PUT", "HEAD"}
RedirectStatuses == {301, 302, 303, 307, 308}
Statuses == RedirectStatuses \cup {101, 200}
Hosts == {"a.example", "b.example"}

NoConnector == "None"
TheConnector == "connector"

\* Location / URI header of a response: absent, or a URL reference.
NoLocation == [scheme |-> "-", host |-> "-", userinfo |-> FALSE]
Locations ==
    { NoLocation,
      [scheme |-> "", host |-> "", userinfo |-> FALSE],
      [scheme |-> "http", host |-> "b.example", userinfo |-> FALSE],
      [scheme |-> "http", host |-> "b.example", userinfo |-> TRUE],
      [scheme |-> "http", host |-> "a.example", userinfo |-> TRUE],
      [scheme |-> "ftp", host |-> "b.example", userinfo |-> FALSE] }

\* Caller-supplied headers the redirect loop looks at.  Content-Length is
\* absent, present with an empty value, or present with a value.
HeaderSets == [cl : {"absent", "empty", "set"}, authz : BOOLEAN]

\* A response object: the hop that produced it, status, Location, the method
\* and body of its request, whether it is open, released or closed, and
\* whether the redirect it caused left the origin.
NoResp == [id |-> 0, status |-> 0, method |-> "-", data |-> FALSE,
           loc |-> NoLocation, state |-> "none", crossed |-> FALSE]
\* A request object built by the loop.
NoReq == [hop |-> 0, method |-> "-", host |-> "-", data |-> FALSE,
          headers |-> [cl |-> "absent", authz |-> FALSE], auth |-> "None"]

VARIABLES
    \* ---- session
    connector,        \* self._connector: NoConnector or TheConnector
    connector_owner,  \* self._connector_owner
    default_auth,     \* self._default_auth is set
    connectorClosed,  \* connector.closed of the connector object
    teardowns,        \* number of connector.close() calls made by close()
    closePc,          \* per closing task: "idle" or "teardown" (awaiting)
    log,              \* history of the session operations (ghost)
    \* ---- one call of _request
    pc,               \* position of the coroutine
    args,             \* keyword arguments of the call
    method, url, data, headers, auth,   \* locals threaded through the loop
    redirects, history,
    req, resp,        \* request object built last, response received last
    conns,            \* connections acquired so far
    conn,             \* the connection of the current hop
    fault,            \* the error a callee raised, as it raised it (ghost)
    handle,           \* timer handle of TimeoutHandle.start()
    traceIdx,         \* index of the observer the current signal goes to
    delivered,        \* signals delivered so far, per observer (ghost)
    exc,              \* exception being propagated inside the try block
    outcome,          \* what the caller got
    \* ---- one call of _prepare_headers
    default_headers,  \* self._default_headers, as (key, value) items
    headers_in,       \* the headers argument, as (key, value) items
    result,           \* the CIMultiDict returned, as (key, value) items
    mergePc,          \* "idle" before the call, "done" after it
    \* ---- one call of _ws_connect
    ws,               \* position and locals of the coroutine
    wsResult,         \* what its caller got
    \* ---- one call of _request, seen by its clocks
    tmo,              \* policies, elapsed time, position, result
    \* ---- calls of _request on one session, seen by the cookie jar
    ck,               \* the jar and, per call, position, URL, cookies sent
    \* ---- calls of _request on one session, seen by the header objects
    hd                \* the CIMultiDict objects and, per call, its reference

sessVars == <<connector, connector_owner, default_auth, connectorClosed,
              teardowns, closePc, log>>
reqVars == <<pc, args, method, url, data, headers, auth, redirects, history,
             req, resp, conns, conn, fault, handle, traceIdx, delivered, exc,
             outcome>>
callVars == <<default_headers, headers_in, result, mergePc, ws, wsResult,
              tmo, ck, hd>>
vars == <<connector, connector_owner, default_auth, connectorClosed,
          teardowns, closePc, log,
          pc, args, method, url, data, headers, auth, redirects, history,
          req, resp, conns, conn, fault, handle, traceIdx, delivered, exc,
          outcome, default_headers, headers_in, result, mergePc, ws,
          wsResult, tmo, ck, hd>>

\* ------------------------------------------------------------- session
\* closed, had it looked at the session's reference only
ClosedByReferenceOnly == connector = NoConnector

\* ClientSession.closed
Closed == connector = NoConnector \/ connectorClosed

NoArgs == [allow_redirects |-> TRUE, max_redirects |-> 0, auth |-> FALSE,
           total |-> FALSE, closedAtEntry |-> FALSE, both |-> FALSE,
           verb |-> "-", passed |-> FALSE]
\* per observer: how often each signal reached its callbacks, whether one
\* of its callbacks has raised, the error its exception signal carried, and
\* the method, URL and headers its last signal carried
NoSignals == [start |-> 0, redirect |-> 0, end |-> 0, exception |-> 0,
              raised |-> FALSE, err |-> "-",
              method |-> "-", host |-> "-",
              headers |-> [cl |-> "absent", authz |-> FALSE]]

\* no callee has raised: where it was awaited, the error's type and args as
\* raised, the args of the error that propagates, the URL its message names
NoFault == [at |-> "-", raw |-> "-", args |-> "-", exc_args |-> "-",
            url |-> "-"]

\* ClientSession.__init__ with connector_owner and auth drawn from the sets
InitWith(owners, auths) ==
    /\ connector = TheConnector
    /\ connector_owner \in owners
    /\ default_auth \in auths
    /\ connectorClosed = FALSE
    /\ teardowns = 0
    /\ closePc = [c \in Closers |-> "idle"]
    /\ log = [closes |-> 0, closeOnOpenReturned |-> FALSE,
              overlapped |-> FALSE, detached |-> FALSE,
              closedOutside |-> FALSE, closeAfterDetach |-> FALSE]
    /\ pc = "idle"
    /\ args = NoArgs
    /\ method = "-"
    /\ url = [host |-> "-", userinfo |-> FALSE]
    /\ data = FALSE
    /\ headers = [cl |-> "absent", authz |-> FALSE]
    /\ auth = "None"
    /\ redirects = 0
    /\ history = <<>>
    /\ req = NoReq
    /\ resp = NoResp
    /\ conns = 0
    /\ conn = "none"
    /\ fault = NoFault
    /\ handle = "unstarted"
    /\ traceIdx = 0
    /\ delivered = [o \in Observers |-> NoSignals]
    /\ exc = "-"
    /\ outcome = "-"

\* headers of an upgrade response that _ws_connect reads; "" is an absent
\* header
NoWsHeaders == [upgrade |-> "", connection |-> "", accept |-> <<>>,
                protocol |-> <<>>, extensions |-> ""]
\* _ws_connect not called
NoWs == [pc |-> "idle", sec_key |-> <<>>, protocols |-> <<>>, compress |-> 0]
NoWsResult == [outcome |-> "-", message |-> "-", status |-> 0,
               headers |-> NoWsHeaders, protocol |-> "None",
               compress |-> 0, notakeover |-> FALSE, resp |-> 0]

\* no call of _prepare_headers or _ws_connect is followed
NoHeadersCall ==
    /\ default_headers = <<>>
    /\ headers_in = <<>>
    /\ result = <<>>
    /\ mergePc = "idle"
NoWsCall == ws = NoWs /\ wsResult = NoWsResult
\* None as a duration; the durations tried are positive
NoLimit == 0
\* ClientTimeout(): every field None
NoPolicy == [total |-> NoLimit, connect |-> NoLimit, sock_read |-> NoLimit,
             sock_connect |-> NoLimit]
\* no call seen by its clocks yet
NoTmo == [pc |-> "idle", session |-> NoPolicy, kind |-> "-",
          arg |-> NoPolicy, real |-> NoPolicy, now |-> 0, hop |-> 0,
          conn |-> FALSE, connect_d |-> 0, connect_end |-> "-",
          applied |-> NoPolicy, consumed |-> FALSE, outcome |-> "-"]
NoTimedCall == tmo = NoTmo
\* a call of _request not made yet, as the cookie jar sees it
NoTask == [pc |-> "idle", host |-> "-", hop |-> 0, own |-> {},
           sent |-> {}, known |-> {}, trail |-> <<>>]
\* the empty jar of a new session and no call made
NoCk == [jar |-> {}, stored |-> {}, task |-> [r \in Tasks |-> NoTask]]
NoCookieCalls == ck = NoCk
\* the identity of the CIMultiDict object self._default_headers
DefaultsObj == 0
\* a header object not allocated yet
Free == [cl |-> "free", authz |-> FALSE, marks |-> {}]
\* no header object in use but the session's, which has no entries, and no
\* call of _request made yet
NoHd == [heap |-> [i \in {DefaultsObj} \cup Tasks |-> Free],
         task |-> [r \in Tasks |->
                     [pc |-> "idle", ref |-> DefaultsObj, sent |-> Free]]]
NoCalls ==
    /\ NoHeadersCall /\ NoWsCall /\ NoTimedCall /\ NoCookieCalls
    /\ hd = NoHd

\* a session without default auth; it owns its connector or borrows it
Init == InitWith(BOOLEAN, {FALSE}) /\ NoCalls

\* a session that owns its connector and has no default auth, no call made
InitOwned == InitWith({TRUE}, {FALSE}) /\ NoCalls

\* a session that owns its connector, with or without default auth
InitRequest == InitWith({TRUE}, BOOLEAN) /\ NoCalls

Count(n) == IF n < MaxCloseLog THEN n + 1 ELSE n

\* the teardown test of close(), had it ignored the ownership flag
TearsDownAlways == connector # NoConnector

\* the teardown test of close()
TearsDown == connector # NoConnector /\ connector_owner

\* the guard of close(), had close() not looked at closed
CloseGuardNone == TRUE

\* `if not self.closed:`, the guard of the whole body of close()
CloseGuard == ~Closed

\* close(), up to its await of connector.close() or to its return.  The
\* connector is marked closed when connector.close() is called: the tests
\* call it without awaiting it and rely on its effect.
CloseBegin(c) ==
    /\ closePc[c] = "idle"
    /\ IF CloseGuard
       THEN IF TearsDown
            THEN /\ teardowns' = teardowns + 1
                 /\ connectorClosed' = TRUE
                 /\ closePc' = [closePc EXCEPT ![c] = "teardown"]
                 /\ log' = [log EXCEPT !.overlapped =
                               @ \/ \E d \in Closers : closePc[d] # "idle"]
                 /\ UNCHANGED connector
            ELSE /\ connector' = NoConnector
                 /\ log' = [log EXCEPT !.closes = Count(@),
                                       !.closeOnOpenReturned = TRUE,
                                       !.overlapped =
                               @ \/ \E d \in Closers : closePc[d] # "idle"]
                 /\ UNCHANGED <<teardowns, connectorClosed, closePc>>
       ELSE /\ log' = [log EXCEPT !.closes = Count(@),
                                  !.closeAfterDetach = @ \/ log.detached,
                                  !.overlapped =
                               @ \/ \E d \in Closers : closePc[d] # "idle"]
            /\ UNCHANGED <<connector, teardowns, connectorClosed, closePc>>
    /\ UNCHANGED <<connector_owner, default_auth>>
    /\ UNCHANGED reqVars
    /\ UNCHANGED callVars

\* close(), had it kept the reference after the teardown
CloseEndKeepsConnector(c) ==
    /\ closePc[c] = "teardown"
    /\ closePc' = [closePc EXCEPT ![c] = "idle"]
    /\ log' = [log EXCEPT !.closes = Count(@),
                          !.closeOnOpenReturned = TRUE]
    /\ UNCHANGED <<connector, connector_owner, default_auth, connectorClosed,
                   teardowns>>
    /\ UNCHANGED reqVars
    /\ UNCHANGED callVars

\* close(), from the return of connector.close() on
CloseEnd(c) ==
    /\ closePc[c] = "teardown"
    /\ connector' = NoConnector
    /\ closePc' = [closePc EXCEPT ![c] = "idle"]
    /\ log' = [log EXCEPT !.closes = Count(@),
                          !.closeOnOpenReturned = TRUE]
    /\ UNCHANGED <<connector_owner, default_auth, connectorClosed, teardowns>>
    /\ UNCHANGED reqVars
    /\ UNCHANGED callVars

\* detach(), had it closed the connector it gives up
DetachClosesConnector ==
    /\ connector' = NoConnector
    /\ connectorClosed' = TRUE
    /\ log' = [log EXCEPT !.detached = TRUE]
    /\ UNCHANGED <<connector_owner, default_auth, teardowns, closePc>>
    /\ UNCHANGED reqVars
    /\ UNCHANGED callVars

\* detach()
Detach ==
    /\ connector' = NoConnector
    /\ log' = [log EXCEPT !.detached = TRUE]
    /\ UNCHANGED <<connector_owner, default_auth, connectorClosed, teardowns,
                   closePc>>
    /\ UNCHANGED reqVars
    /\ UNCHANGED callVars

\* the owner of a borrowed or shared connector closes it itself
ConnectorClosedOutside ==
    /\ ~connectorClosed
    /\ connectorClosed' = TRUE
    /\ log' = [log EXCEPT !.closedOutside = TRUE]
    /\ UNCHANGED <<connector, connector_owner, default_auth, teardowns,
                   closePc>>
    /\ UNCHANGED reqVars
    /\ UNCHANGED callVars

SessionNext ==
    \/ \E c \in Closers : CloseBegin(c)
    \/ \E c \in Closers : CloseEnd(c)
    \/ Detach
    \/ ConnectorClosedOutside

\* ------------------------------------------------------------- helpers
\* _prepare_headers: session defaults overlaid with the caller's headers
\* (the session of the model has no default for these two names)
PrepareHeaders(h) == h

\* strip_auth_from_url(url): the URL without userinfo
StripAuth(u) == [u EXCEPT !.userinfo = FALSE]

\* auth resolution at the top of the loop: argument or value kept from the
\* previous hop, else the URL's userinfo, else the session default
ResolveAuth(a, auth_from_url) ==
    IF a # "None" THEN a
    ELSE IF auth_from_url THEN "url"
    ELSE IF default_auth THEN "default"
    ELSE "None"

\* the redirect limit test, had it used > for >=
TooManyStrict(max_redirects, n) == max_redirects # 0 /\ n > max_redirects

\* the redirect limit test, had it not skipped a limit of 0
TooManyAlsoZero(max_redirects, n) == n >= max_redirects

\* the redirect limit test, had the loop had none
TooManyNever(max_redirects, n) == FALSE

\* the redirect limit test: `max_redirects and redirects >= max_redirects`
TooMany(max_redirects, n) == max_redirects # 0 /\ n >= max_redirects

\* the method downgrade test of the redirect branch
Downgrade(status, m) ==
    \/ status = 303 /\ m # "HEAD"
    \/ status \in {301, 302} /\ m = "POST"

\* headers.get(CONTENT_LENGTH) is truthy, then headers.pop(CONTENT_LENGTH)
PopContentLength(h) ==
    IF h.cl = "set" THEN [h EXCEPT !.cl = "absent"] ELSE h

\* headers.pop(AUTHORIZATION, None)
PopAuthorization(h) == [h EXCEPT !.authz = FALSE]

\* target of a redirect: URL(r_url), joined to the current URL if relative
RedirectTarget(u, loc) ==
    IF loc.scheme = "" THEN [host |-> u.host, userinfo |-> FALSE]
    ELSE [host |-> loc.host, userinfo |-> loc.userinfo]

\* the test for a missing redirect target, had the loop gone on without it
RUrlIsNoneNever(loc) == FALSE

\* `r_url is None`: the response has neither a Location nor a URI header
RUrlIsNone(loc) == loc = NoLocation

\* the response after the redirect branch found an error, had it raised
\* without closing
CloseBeforeRaiseSkipped(r) == r

\* resp.close() before the redirect branch raises
CloseBeforeRaise(r) == [r EXCEPT !.state = "closed"]

\* handle.cancel() of the except block and of the no-connection branch
Cancel(h) == IF h = "armed" THEN "cancelled" ELSE h

\* the except block of _request, had it sent no exception signal and
\* swallowed the error
RaiseSwallowed(e) ==
    /\ exc' = e
    /\ handle' = Cancel(handle)
    /\ pc' = "done"
    /\ traceIdx' = 0

\* Entering the except block of _request with error e: the timer handle is
\* cancelled and the exception signal is sent to the observers in turn.
Raise(e) ==
    /\ exc' = e
    /\ handle' = Cancel(handle)
    /\ pc' = "trace_exception"
    /\ traceIdx' = 1

\* leaving the loop, had the handle been cancelled at once in both cases
FinalizeCancelsNow(hasConn) ==
    /\ handle' = Cancel(handle)
    /\ pc' = "trace_end"
    /\ traceIdx' = 1
    /\ UNCHANGED exc

\* Leaving the loop with the current response: the handle is cancelled now
\* if the response holds no connection, else when the connection is released;
\* then the end signal is sent to the observers in turn.
Finalize(hasConn) ==
    /\ handle' = IF hasConn THEN handle ELSE Cancel(handle)
    /\ pc' = "trace_end"
    /\ traceIdx' = 1
    /\ UNCHANGED exc

\* trace.send_<ev>(method, url, headers, ...) for the observer in turn; its
\* callback may raise
Signal(ev, raises) ==
    [delivered EXCEPT ![traceIdx] =
        [@ EXCEPT ![ev] = @ + 1, !.raised = @ \/ raises,
                  !.method = method, !.host = url.host,
                  !.headers = headers]]

\* --------------------------------------------------------- _request
\* arguments of a call: every combination, but a body only with POST or PUT;
\* verb is the method of the session the caller used, passed tells whether
\* the caller gave allow_redirects to it
RequestArgs ==
    { a \in [method : Methods, data : BOOLEAN, json : BOOLEAN,
             headers : HeaderSets, auth : BOOLEAN, userinfo : BOOLEAN,
             allow_redirects : BOOLEAN, max_redirects : 0..MaxRedirectsArg,
             total : BOOLEAN, verb : {"request"}, passed : {TRUE}] :
        (a.data \/ a.json) => a.method \in {"POST", "PUT"} }

\* session.get(url, max_redirects=n): no body, no headers, no credentials,
\* redirects allowed, the session's default timeout (total is set)
PlainArgs ==
    { a \in RequestArgs :
        /\ a.method = "GET"
        /\ a.headers = [cl |-> "absent", authz |-> FALSE]
        /\ ~a.json /\ ~a.auth /\ ~a.userinfo
        /\ a.allow_redirects /\ a.total }

\* the data/json test of the call, had it been left out
DataAndJsonUnchecked(a) == FALSE

\* `data is not None and json is not None`
DataAndJson(a) == a.data /\ a.json

\* the call, up to the first request-start signal
RequestCall(Args) ==
    /\ pc = "idle"
    /\ IF Closed
       THEN /\ pc' = "done"
            /\ outcome' = "RuntimeError"
            /\ args' = [NoArgs EXCEPT !.closedAtEntry = TRUE]
            /\ UNCHANGED <<method, url, data, headers, auth, redirects,
                           history, handle, traceIdx>>
       ELSE \E a \in Args :
            IF DataAndJson(a)
            THEN /\ pc' = "done"
                 /\ outcome' = "ValueError"
                 /\ args' = [NoArgs EXCEPT !.both = TRUE]
                 /\ UNCHANGED <<method, url, data, headers, auth, redirects,
                                history, handle, traceIdx>>
            ELSE /\ args' = [allow_redirects |-> a.allow_redirects,
                             max_redirects |-> a.max_redirects,
                             auth |-> a.auth, total |-> a.total,
                             closedAtEntry |->
                                 (connector = NoConnector \/ connectorClosed),
                             both |-> a.data /\ a.json,
                             verb |-> a.verb, passed |-> a.passed]
                 /\ method' = a.method
                 /\ url' = [host |-> "a.example", userinfo |-> a.userinfo]
                 /\ data' = (a.data \/ a.json)
                 /\ headers' = PrepareHeaders(a.headers)
                 /\ auth' = IF a.auth THEN "arg" ELSE "None"
                 /\ redirects' = 0
                 /\ history' = <<>>
                 /\ handle' = IF a.total THEN "armed" ELSE "none"
                 /\ traceIdx' = 1
                 /\ pc' = "trace_start"
                 /\ UNCHANGED outcome
    /\ UNCHANGED <<req, resp, conns, conn, fault, delivered, exc>>
    /\ UNCHANGED sessVars
    /\ UNCHANGED callVars

\* the request-start loop, had it stopped after the first observer
TraceStartFirstOnly ==
    /\ pc = "trace_start"
    /\ \E raises \in BOOLEAN :
         /\ delivered' = Signal("start", raises)
         /\ IF raises
            THEN /\ pc' = "done"
                 /\ outcome' = "ObserverError"
                 /\ UNCHANGED traceIdx
            ELSE /\ pc' = "prepare" /\ traceIdx' = 0
                 /\ UNCHANGED outcome
    /\ UNCHANGED <<args, method, url, data, headers, auth, redirects, history,
                   req, resp, conns, conn, fault, handle, exc>>
    /\ UNCHANGED sessVars
    /\ UNCHANGED callVars

\* one observer's on_request_start; it runs before the try block
TraceStart ==
    /\ pc = "trace_start"
    /\ \E raises \in BOOLEAN :
         /\ delivered' = Signal("start", raises)
         /\ IF raises
            THEN /\ pc' = "done"
                 /\ outcome' = "ObserverError"
                 /\ UNCHANGED traceIdx
            ELSE /\ IF traceIdx < NumObservers
                    THEN pc' = "trace_start" /\ traceIdx' = traceIdx + 1
                    ELSE pc' = "prepare" /\ traceIdx' = 0
                 /\ UNCHANGED outcome
    /\ UNCHANGED <<args, method, url, data, headers, auth, redirects, history,
                   req, resp, conns, conn, fault, handle, exc>>
    /\ UNCHANGED sessVars
    /\ UNCHANGED callVars

\* top of the loop, up to the call of connector.connect
Prepare ==
    /\ pc = "prepare"
    /\ conns < MaxHops
    /\ url' = StripAuth(url)
    /\ UNCHANGED <<args, method, data, headers, redirects, history, resp,
                   conns, conn, fault, delivered, outcome>>
    /\ UNCHANGED sessVars
    /\ UNCHANGED callVars
    /\ IF auth # "None" /\ url.userinfo
       THEN Raise("ValueError") /\ UNCHANGED <<auth, req>>
       ELSE /\ auth' = ResolveAuth(auth, url.userinfo)
            /\ IF auth' # "None" /\ headers.authz
               THEN Raise("ValueError") /\ UNCHANGED req
               ELSE /\ req' = [hop |-> conns + 1, method |-> method,
                               host |-> url.host, data |-> data,
                               headers |-> headers, auth |-> auth']
                    /\ IF connector = NoConnector
                       THEN Raise("AssertionError")
                       ELSE /\ pc' = "connect"
                            /\ UNCHANGED <<handle, traceIdx, exc>>

\* class membership of the errors the callees may raise
ClientErrors == {"ClientError", "ClientOSError", "ClientConnectorError",
                 "ServerTimeoutError"}
OSErrors == {"OSError", "ClientOSError", "ClientConnectorError"}

\* exc.args of a raised error: errno and message of an OS-level error
ErrorArgs(e) == IF e \in OSErrors THEN {"ECONNRESET", "EPIPE"} ELSE {"-"}

\* the except clause around connector.connect, had it let timeouts through
ClassifyConnectUnchanged(e) == e

\* the except clause around connector.connect
ClassifyConnect(e) == IF e = "TimeoutError" THEN "ServerTimeoutError" ELSE e

ConnectErrors == {"TimeoutError", "ClientConnectorError", "OSError"}

\* connector.connect returns or raises
Connect ==
    /\ pc = "connect"
    /\ \/ /\ conns' = conns + 1
          /\ conn' = "open"
          /\ pc' = "send"
          /\ UNCHANGED <<handle, traceIdx, exc, fault>>
       \/ \E r \in ConnectErrors : \E a \in ErrorArgs(r) :
            /\ Raise(ClassifyConnect(r))
            /\ fault' = [at |-> pc, raw |-> r, args |-> a,
                         exc_args |-> IF ClassifyConnect(r) = r THEN a
                                      ELSE "Connection timeout to host",
                         url |-> IF ClassifyConnect(r) = r THEN "-"
                                 ELSE url.host]
            /\ UNCHANGED <<conns, conn>>
    /\ UNCHANGED <<args, method, url, data, headers, auth, redirects, history,
                   req, resp, delivered, outcome>>
    /\ UNCHANGED sessVars
    /\ UNCHANGED callVars

\* the except clauses around req.send / resp.start, had OSError come first
ClassifyOSErrorFirst(e) == IF e \in OSErrors THEN "ClientOSError" ELSE e

\* the except clauses around req.send / resp.start: ClientError is re-raised,
\* any other OSError is replaced by ClientOSError(*exc.args)
Classify(e) ==
    IF e \in ClientErrors THEN e
    ELSE IF e \in OSErrors THEN "ClientOSError"
    ELSE e

SendErrors == {"ClientError", "ClientConnectorError", "OSError",
               "CancelledError"}

\* the connection after the handlers of a send/start failure, had they
\* caught Exception only
CloseOnErrorExceptionOnly(e) ==
    IF e = "CancelledError" THEN "open" ELSE "closed"

\* the connection after the handlers of a send/start failure: conn.close()
\* runs for every BaseException
CloseOnError(e) == "closed"

\* req.send(conn) returns the response object or raises
Send ==
    /\ pc = "send"
    /\ \/ /\ resp' = [id |-> conns, status |-> 0, method |-> req.method,
                       data |-> req.data, loc |-> NoLocation,
                       state |-> "open", crossed |-> FALSE]
          /\ pc' = "start"
          /\ UNCHANGED <<handle, traceIdx, exc, conn, fault>>
       \/ \E r \in SendErrors : \E a \in ErrorArgs(r) :
            /\ conn' = CloseOnError(r)
            /\ Raise(Classify(r))
            /\ fault' = [at |-> pc, raw |-> r, args |-> a, exc_args |-> a,
                         url |-> "-"]
            /\ UNCHANGED resp
    /\ UNCHANGED <<args, method, url, data, headers, auth, redirects, history,
                   req, conns, delivered, outcome>>
    /\ UNCHANGED sessVars
    /\ UNCHANGED callVars

\* resp.start(conn) returns (status line and headers are in) or raises;
\* then the cookie jar is updated and the loop decides to go on or to stop
Start ==
    /\ pc = "start"
    /\ \/ \E r \in SendErrors : \E a \in ErrorArgs(r) :
            /\ resp' = [resp EXCEPT !.state = "closed"]
            /\ conn' = CloseOnError(r)
            /\ Raise(Classify(r))
            /\ fault' = [at |-> pc, raw |-> r, args |-> a, exc_args |-> a,
                         url |-> "-"]
       \/ \E st \in Statuses, loc \in Locations, hasConn \in BOOLEAN :
            /\ st \notin RedirectStatuses => loc = NoLocation
            /\ IF st \in RedirectStatuses /\ args.allow_redirects
               THEN /\ hasConn
                    /\ resp' = [resp EXCEPT !.status = st, !.loc = loc]
                    /\ pc' = "trace_redirect"
                    /\ traceIdx' = 1
                    /\ UNCHANGED <<handle, exc, conn>>
               ELSE /\ resp' = [resp EXCEPT !.status = st, !.loc = loc]
                    /\ conn' = IF hasConn THEN conn ELSE "released"
                    /\ Finalize(hasConn)
            /\ UNCHANGED fault
    /\ UNCHANGED <<args, method, url, data, headers, auth, redirects, history,
                   req, conns, delivered, outcome>>
    /\ UNCHANGED sessVars
    /\ UNCHANGED callVars

\* the redirect signal, had it gone to the first observer only
TraceRedirectFirstOnly ==
    /\ pc = "trace_redirect"
    /\ \E raises \in BOOLEAN :
         /\ delivered' = Signal("redirect", raises)
         /\ IF raises
            THEN Raise("ObserverError")
            ELSE /\ pc' = "redirect" /\ traceIdx' = 0
                 /\ UNCHANGED <<handle, exc>>
    /\ UNCHANGED <<args, method, url, data, headers, auth, redirects, history,
                   req, resp, conns, conn, fault, outcome>>
    /\ UNCHANGED sessVars
    /\ UNCHANGED callVars

\* one observer's on_request_redirect
TraceRedirect ==
    /\ pc = "trace_redirect"
    /\ \E raises \in BOOLEAN :
         /\ delivered' = Signal("redirect", raises)
         /\ IF raises
            THEN Raise("ObserverError")
            ELSE /\ IF traceIdx < NumObservers
                    THEN pc' = "trace_redirect" /\ traceIdx' = traceIdx + 1
                    ELSE pc' = "redirect" /\ traceIdx' = 0
                 /\ UNCHANGED <<handle, exc>>
    /\ UNCHANGED <<args, method, url, data, headers, auth, redirects, history,
                   req, resp, conns, conn, fault, outcome>>
    /\ UNCHANGED sessVars
    /\ UNCHANGED callVars

\* the redirect branch after the signals: counter, history, limit, method
\* downgrade, Location, scheme check, origin check
Redirect ==
    /\ pc = "redirect"
    /\ redirects' = redirects + 1
    /\ history' = Append(history, resp.id)
    /\ UNCHANGED <<args, req, conns, fault, delivered, outcome>>
    /\ UNCHANGED sessVars
    /\ UNCHANGED callVars
    /\ IF TooMany(args.max_redirects, redirects')
       THEN /\ resp' = CloseBeforeRaise(resp)
            /\ conn' = "closed"
            /\ Raise("TooManyRedirects")
            /\ UNCHANGED <<method, url, data, headers, auth>>
       ELSE /\ method' = IF Downgrade(resp.status, resp.method)
                         THEN "GET" ELSE method
            /\ data' = IF Downgrade(resp.status, resp.method)
                       THEN FALSE ELSE data
            /\ IF RUrlIsNone(resp.loc)
               THEN /\ headers' = IF Downgrade(resp.status, resp.method)
                                  THEN PopContentLength(headers) ELSE headers
                    /\ \E hasConn \in BOOLEAN :
                          /\ conn' = IF hasConn THEN conn ELSE "released"
                          /\ Finalize(hasConn)
                    /\ UNCHANGED <<url, auth, resp>>
               ELSE IF resp.loc.scheme \notin {"http", "https", ""}
               THEN /\ headers' = IF Downgrade(resp.status, resp.method)
                                  THEN PopContentLength(headers) ELSE headers
                    /\ resp' = CloseBeforeRaise([resp EXCEPT
                                                     !.state = "released"])
                    /\ conn' = "released"
                    /\ Raise("ValueError")
                    /\ UNCHANGED <<url, auth>>
               ELSE LET r_url == RedirectTarget(url, resp.loc)
                        h1 == IF Downgrade(resp.status, resp.method)
                              THEN PopContentLength(headers) ELSE headers
                        cross == url.host # r_url.host
                    IN /\ auth' = IF cross THEN "None" ELSE auth
                       /\ headers' = IF cross THEN PopAuthorization(h1)
                                     ELSE h1
                       /\ url' = r_url
                       /\ resp' = [resp EXCEPT !.state = "released",
                                               !.crossed = cross]
                       /\ conn' = "released"
                       /\ pc' = "prepare"
                       /\ UNCHANGED <<handle, traceIdx, exc>>

\* one observer's on_request_end; it runs inside the try block
TraceEnd ==
    /\ pc = "trace_end"
    /\ \E raises \in BOOLEAN :
         /\ delivered' = Signal("end", raises)
         /\ IF raises
            THEN /\ Raise("ObserverError")
                 /\ fault' = [NoFault EXCEPT !.at = pc]
                 /\ UNCHANGED outcome
            ELSE /\ IF traceIdx < NumObservers
                    THEN /\ pc' = "trace_end" /\ traceIdx' = traceIdx + 1
                         /\ UNCHANGED outcome
                    ELSE /\ pc' = "done" /\ traceIdx' = 0
                         /\ outcome' = "ok"
                 /\ UNCHANGED <<handle, exc, fault>>
    /\ UNCHANGED <<args, method, url, data, headers, auth, redirects, history,
                   req, resp, conns, conn>>
    /\ UNCHANGED sessVars
    /\ UNCHANGED callVars

\* one observer's on_request_exception, then the error is re-raised
TraceException ==
    /\ pc = "trace_exception"
    /\ \E raises \in BOOLEAN :
         /\ delivered' = [Signal("exception", raises)
                             EXCEPT ![traceIdx].err = exc]
         /\ IF raises
            THEN /\ pc' = "done"
                 /\ outcome' = "ObserverError"
                 /\ UNCHANGED traceIdx
            ELSE IF traceIdx < NumObservers
                 THEN /\ pc' = "trace_exception" /\ traceIdx' = traceIdx + 1
                      /\ UNCHANGED outcome
                 ELSE /\ pc' = "done" /\ traceIdx' = 0
                      /\ outcome' = exc
    /\ UNCHANGED <<args, method, url, data, headers, auth, redirects, history,
                   req, resp, conns, conn, fault, handle, exc>>
    /\ UNCHANGED sessVars
    /\ UNCHANGED callVars

\* the steps of a call after its entry
RequestSteps ==
    \/ TraceStart
    \/ Prepare
    \/ Connect
    \/ Send
    \/ Start
    \/ TraceRedirect
    \/ Redirect
    \/ TraceEnd
    \/ TraceException

\* Session life cycle: close, detach and an outside close of the connector
\* interleave with one session.get call at its suspension points.
Next ==
    \/ SessionNext
    \/ RequestCall(PlainArgs)
    \/ RequestSteps

Spec == Init /\ [][Next]_vars

\* Request orchestration: one call with any arguments on a session that
\* stays open.
NextRequest ==
    \/ RequestCall(RequestArgs)
    \/ RequestSteps

SpecRequest == InitRequest /\ [][NextRequest]_vars

\* ------------------------------------------- the response after return
\* session.get(url, max_redirects=n, timeout=...): total is set or None
GetArgs ==
    { a \in RequestArgs :
        /\ a.method = "GET"
        /\ a.headers = [cl |-> "absent", authz |-> FALSE]
        /\ ~a.json /\ ~a.auth /\ ~a.userinfo
        /\ a.allow_redirects }

\* the callbacks of the connection run when it is released or closed; the
\* one _request added is handle.cancel
NotifyRelease(h) == Cancel(h)

\* the caller reads the body of the returned response to its end, or
\* releases or closes the response: the connection goes back to the pool or
\* is dropped
ConnectionReleased ==
    /\ pc = "done" /\ outcome = "ok"
    /\ conn = "open"
    /\ \E how \in {"released", "closed"} :
         /\ conn' = how
         /\ resp' = [resp EXCEPT !.state = how]
    /\ handle' = NotifyRelease(handle)
    /\ UNCHANGED <<pc, args, method, url, data, headers, auth, redirects,
                   history, req, conns, fault, traceIdx, delivered, exc,
                   outcome>>
    /\ UNCHANGED sessVars
    /\ UNCHANGED callVars

\* One session.get call and the life of its response after the return.
NextBody ==
    \/ RequestCall(GetArgs)
    \/ RequestSteps
    \/ ConnectionReleased

SpecBody == InitOwned /\ [][NextBody]_vars

\* A hop past the MaxHops hops whose connections and responses the model
\* keeps: the loop is at its top with MaxHops connections acquired.  The
\* auth check of the top of the loop raises as in Prepare; otherwise the hop
\* is answered 307 with a Location on the other host, the limit test lets
\* it through, auth and Authorization are dropped for the new origin, and
\* the loop is at its top again.  The counters and the objects of such hops
\* are not kept.
HopBeyond ==
    /\ pc = "prepare"
    /\ conns = MaxHops
    /\ IF auth # "None" /\ url.userinfo
       THEN /\ url' = StripAuth(url)
            /\ Raise("ValueError")
            /\ UNCHANGED <<auth, headers>>
       ELSE /\ ~TooMany(args.max_redirects, redirects + 1)
            /\ \E h \in Hosts \ {url.host} :
                  url' = [host |-> h, userinfo |-> FALSE]
            /\ auth' = "None"
            /\ headers' = PopAuthorization(headers)
            /\ UNCHANGED <<pc, handle, traceIdx, exc>>
    /\ UNCHANGED <<args, method, data, redirects, history, req, resp, conns,
                   conn, fault, delivered, outcome>>
    /\ UNCHANGED sessVars
    /\ UNCHANGED callVars

\* One session.get call, with the hops past MaxHops.
NextLoop ==
    \/ RequestCall(GetArgs)
    \/ RequestSteps
    \/ HopBeyond

\* The awaited operations of the call (observer callbacks, connect, send,
\* start) all return or raise: every step of the `while True` loop that can
\* be taken is taken in the end.  The server may answer every hop with a
\* redirect.
SpecLoop ==
    /\ InitOwned /\ [][NextLoop]_vars
    /\ WF_vars(RequestSteps) /\ WF_vars(HopBeyond)

\* ------------------------------------- get, options, head, post, ...
DefaultMaxRedirects == 10
Verbs == {"get", "options", "head", "post", "put", "patch", "delete"}

\* the method a verb hands to _request
VerbMethod(v) ==
    CASE v = "get" -> "GET"
      [] v = "options" -> "OPTIONS"
      [] v = "head" -> "HEAD"
      [] v = "post" -> "POST"
      [] v = "put" -> "PUT"
      [] v = "patch" -> "PATCH"
      [] v = "delete" -> "DELETE"

\* the default of allow_redirects, had head shared it with get
VerbAllowRedirectsAllOn(v) == TRUE

\* the default of allow_redirects: the one in the signature of get, options
\* and head, and for the other verbs the one of _request
VerbAllowRedirects(v) == v # "head"

\* what _request gets from session.<verb>(url), with or without
\* allow_redirects, and for post, put and patch with or without data
VerbArgs ==
    { a \in
        { [method |-> VerbMethod(v), data |-> d, json |-> FALSE,
           headers |-> [cl |-> "absent", authz |-> FALSE],
           auth |-> FALSE, userinfo |-> FALSE,
           allow_redirects |-> IF kw = "default" THEN VerbAllowRedirects(v)
                               ELSE kw = "on",
           max_redirects |-> DefaultMaxRedirects, total |-> TRUE,
           verb |-> v, passed |-> kw # "default"] :
          v \in Verbs, kw \in {"default", "on", "off"}, d \in BOOLEAN } :
        a.data => a.verb \in {"post", "put", "patch"} }

\* One call of a verb on a session that stays open.
NextVerbs ==
    \/ RequestCall(VerbArgs)
    \/ RequestSteps

SpecVerbs == InitOwned /\ [][NextVerbs]_vars

\* --------------------------------------------------- _prepare_headers
\* header names as callers spell them, and the key CIMultiDict files a
\* name under (names that differ in letter case only share it)
HeaderNames == {"h1", "H1", "h2"}
Identity(key) == IF key = "H1" THEN "h1" ELSE key
HeaderItems == HeaderNames \X {"v1", "v2"}

\* header lists of at most n items
RECURSIVE ItemLists(_)
ItemLists(n) ==
    IF n = 0 THEN {<<>>}
    ELSE LET shorter == ItemLists(n - 1)
         IN shorter \cup
            {Append(l, i) : l \in {m \in shorter : Len(m) = n - 1},
                            i \in HeaderItems}

\* the items of md without those filed under the key of `key`
RECURSIVE Without(_, _)
Without(md, key) ==
    IF md = <<>> THEN <<>>
    ELSE IF Identity(md[1][1]) = Identity(key) THEN Without(Tail(md), key)
    ELSE <<md[1]>> \o Without(Tail(md), key)

\* CIMultiDict.add(key, value)

\* CIMultiDict.__setitem__(key, value): the first item filed under the key
\* is replaced in place, the other items filed under it are removed; with
\* no such item the new one is appended
RECURSIVE SetItem(_, _, _)
SetItem(md, key, value) ==
    IF md = <<>> THEN <<<<key, value>>>>
    ELSE IF Identity(md[1][1]) = Identity(key)
    THEN <<<<key, value>>>> \o Without(Tail(md), key)
    ELSE <<md[1]>> \o SetItem(Tail(md), key, value)

\* the loop of _prepare_headers over headers.items(); added_names is a set
\* of the keys as spelled
RECURSIVE MergeItems(_, _, _)
MergeItems(res, items, added_names) ==
    IF items = <<>> THEN res
    ELSE LET key == items[1][1]
             value == items[1][2]
         IN IF key \in added_names
            THEN MergeItems(Append(res, <<key, value>>), Tail(items),
                            added_names)
            ELSE MergeItems(SetItem(res, key, value), Tail(items),
                            added_names \cup {key})

\* _prepare_headers(headers) of a session with the given default headers
PrepareHeadersItems(defaults, hs) ==
    IF hs = <<>> THEN defaults ELSE MergeItems(defaults, hs, {})

\* session defaults tried
DefaultHeaderSets ==
    { <<>>,
      <<<<"h1", "header1">>>>,
      <<<<"h1", "header1">>, <<"h2", "header2">>>>,
      <<<<"H1", "header1">>, <<"h2", "header2">>>> }

InitHeaders ==
    /\ InitWith({TRUE}, {FALSE})
    /\ default_headers \in DefaultHeaderSets
    /\ headers_in \in ItemLists(MaxHeaders)
    /\ result = <<>>
    /\ mergePc = "idle"
    /\ NoWsCall
    /\ NoTimedCall
    /\ NoCookieCalls
    /\ hd = NoHd

\* session._prepare_headers(headers)
PrepareHeadersCall ==
    /\ mergePc = "idle"
    /\ result' = PrepareHeadersItems(default_headers, headers_in)
    /\ mergePc' = "done"
    /\ UNCHANGED <<default_headers, headers_in, ws, wsResult, tmo, ck, hd>>
    /\ UNCHANGED sessVars
    /\ UNCHANGED reqVars

SpecHeaders == InitHeaders /\ [][PrepareHeadersCall]_vars

\* ---------------------------------- header objects of concurrent calls
\* A CIMultiDict is an object: the model keeps the objects in hd.heap and
\* each call's local `headers` as a reference into it.  The entries kept are
\* Content-Length, Authorization, and the entries observers added (marks:
\* the calls whose observers added one).
HdContents == [cl : {"absent", "set"}, authz : BOOLEAN, marks : {{}}]

\* the object _prepare_headers fills, had it been the session's own
ResultObjShared(heap) == DefaultsObj

\* `result = CIMultiDict(self._default_headers)`: a new object, the lowest
\* identity not in use
ResultObj(heap) ==
    CHOOSE i \in Tasks :
        /\ heap[i] = Free
        /\ \A j \in Tasks : heap[j] = Free => i <= j

\* the entries of result after the loop `result[key] = value` over the
\* caller's headers (none when the caller gave no headers)
Overlay(d, h) ==
    [cl |-> IF h.cl # "absent" THEN h.cl ELSE d.cl,
     authz |-> d.authz \/ h.authz,
     marks |-> d.marks]

\* call r of _request starts: headers = self._prepare_headers(headers),
\* the result object filled with the defaults overlaid with the argument
HdCall(r) ==
    /\ hd.task[r].pc = "idle"
    /\ \E h \in HdContents :
         hd' = [hd EXCEPT
                   !.heap[ResultObj(hd.heap)] =
                       Overlay(hd.heap[DefaultsObj], h),
                   !.task[r] = [@ EXCEPT !.pc = "trace",
                                         !.ref = ResultObj(hd.heap)]]
    /\ UNCHANGED <<default_headers, headers_in, result, mergePc, ws,
                   wsResult, tmo, ck>>
    /\ UNCHANGED sessVars
    /\ UNCHANGED reqVars

\* the observers of call r are given `headers` with on_request_start and
\* may add an entry to it
HdObserver(r) ==
    /\ hd.task[r].pc = "trace"
    /\ \E edits \in BOOLEAN :
         LET ref == hd.task[r].ref
         IN hd' = [hd EXCEPT
                      !.heap[ref].marks = IF edits THEN @ \cup {r} ELSE @,
                      !.task[r].pc = "send"]
    /\ UNCHANGED <<default_headers, headers_in, result, mergePc, ws,
                   wsResult, tmo, ck>>
    /\ UNCHANGED sessVars
    /\ UNCHANGED reqVars

\* a hop of call r: the request is built from `headers` and sent
HdSend(r) ==
    /\ hd.task[r].pc = "send"
    /\ hd' = [hd EXCEPT !.task[r] =
                 [@ EXCEPT !.pc = "response",
                           !.sent = hd.heap[hd.task[r].ref]]]
    /\ UNCHANGED <<default_headers, headers_in, result, mergePc, ws,
                   wsResult, tmo, ck>>
    /\ UNCHANGED sessVars
    /\ UNCHANGED reqVars

\* the response of a hop of call r: final (the call returns and its locals
\* are gone), or a redirect that is followed after popping Content-Length
\* (method downgrade) and Authorization (other origin) from `headers`
HdResponse(r) ==
    /\ hd.task[r].pc = "response"
    /\ LET ref == hd.task[r].ref
       IN \/ hd' = [hd EXCEPT !.heap[ref] = Free,
                              !.task[r] = [NoHd.task[r] EXCEPT
                                              !.pc = "done"]]
          \/ \E downgrade, crossed \in BOOLEAN :
               LET h1 == IF downgrade THEN PopContentLength(hd.heap[ref])
                         ELSE hd.heap[ref]
                   h2 == IF crossed THEN PopAuthorization(h1) ELSE h1
               IN hd' = [hd EXCEPT !.heap[ref] = h2,
                                   !.task[r].pc = "send"]
    /\ UNCHANGED <<default_headers, headers_in, result, mergePc, ws,
                   wsResult, tmo, ck>>
    /\ UNCHANGED sessVars
    /\ UNCHANGED reqVars

\* calls of _request on one session, interleaved at their awaits
NextDefaults ==
    \/ \E r \in Tasks : HdCall(r)
    \/ \E r \in Tasks : HdObserver(r)
    \/ \E r \in Tasks : HdSend(r)
    \/ \E r \in Tasks : HdResponse(r)

\* a session with any default headers and with or without default auth
InitDefaults ==
    /\ InitWith({TRUE}, BOOLEAN)
    /\ NoHeadersCall /\ NoWsCall /\ NoTimedCall /\ NoCookieCalls
    /\ \E d \in HdContents : hd = [NoHd EXCEPT !.heap[DefaultsObj] = d]

SpecDefaults == InitDefaults /\ [][NextDefaults]_vars

\* -------------------------------------------------------- _ws_connect

\* Byte strings are sequences of byte values; a 32-bit word is the pair
\* <<high half, low half>> of its 16-bit halves.
\* a function on 1..n as a sequence
Tuple(f) == SubSeq(f, 1, Len(f))
\* bit k of x xor y xor z xor u, at its place
XorBit(x, y, z, u, k) ==
    LET p == 2 ^ k
    IN p * (((x \div p) + (y \div p) + (z \div p) + (u \div p)) % 2)
\* x xor y xor z xor u on 16 bits
Xor16(x, y, z, u) ==
    (((XorBit(x, y, z, u, 0) + XorBit(x, y, z, u, 1))
       + (XorBit(x, y, z, u, 2) + XorBit(x, y, z, u, 3)))
      + ((XorBit(x, y, z, u, 4) + XorBit(x, y, z, u, 5))
         + (XorBit(x, y, z, u, 6) + XorBit(x, y, z, u, 7))))
    + (((XorBit(x, y, z, u, 8) + XorBit(x, y, z, u, 9))
         + (XorBit(x, y, z, u, 10) + XorBit(x, y, z, u, 11)))
       + ((XorBit(x, y, z, u, 12) + XorBit(x, y, z, u, 13))
          + (XorBit(x, y, z, u, 14) + XorBit(x, y, z, u, 15))))
Xor32(a, b, c, d) ==
    <<Xor16(a[1], b[1], c[1], d[1]), Xor16(a[2], b[2], c[2], d[2])>>
\* bit k of f_t(x, y, z), at its place: Ch in rounds 1..20, Maj in rounds
\* 41..60, Parity in the others
FBit(t, x, y, z, k) ==
    LET p == 2 ^ k
        bx == (x \div p) % 2
        by == (y \div p) % 2
        bz == (z \div p) % 2
    IN p * (IF t <= 20 THEN (IF bx = 1 THEN by ELSE bz)
            ELSE IF t > 40 /\ t <= 60 THEN (bx + by + bz) \div 2
            ELSE (bx + by + bz) % 2)
\* f_t(x, y, z) on 16 bits
F16(t, x, y, z) ==
    (((FBit(t, x, y, z, 0) + FBit(t, x, y, z, 1))
       + (FBit(t, x, y, z, 2) + FBit(t, x, y, z, 3)))
      + ((FBit(t, x, y, z, 4) + FBit(t, x, y, z, 5))
         + (FBit(t, x, y, z, 6) + FBit(t, x, y, z, 7))))
    + (((FBit(t, x, y, z, 8) + FBit(t, x, y, z, 9))
         + (FBit(t, x, y, z, 10) + FBit(t, x, y, z, 11)))
       + ((FBit(t, x, y, z, 12) + FBit(t, x, y, z, 13))
          + (FBit(t, x, y, z, 14) + FBit(t, x, y, z, 15))))
\* rotation to the left by n < 16 bits
Rotl16(a, n) ==
    <<((a[1] * (2 ^ n)) % 65536) + (a[2] \div (2 ^ (16 - n))),
      ((a[2] * (2 ^ n)) % 65536) + (a[1] \div (2 ^ (16 - n)))>>
\* rotation to the left by n < 32 bits
Rotl32(a, n) == IF n < 16 THEN Rotl16(a, n) ELSE Rotl16(<<a[2], a[1]>>, n - 16)
\* a + b + c + d + e modulo 2^32, by halves
Add32(a, b, c, d, e) ==
    LET lo == a[2] + b[2] + c[2] + d[2] + e[2]
        hi == a[1] + b[1] + c[1] + d[1] + e[1] + lo \div 65536
    IN <<hi % 65536, lo % 65536>>

\* SHA-1 padding: the byte 80, zero bytes up to 56 mod 64, the bit length
\* in 8 bytes
Sha1Pad(bs) ==
    LET l == 8 * Len(bs)
    IN bs \o <<128>> \o Tuple([i \in 1..((55 - Len(bs)) % 64) |-> 0])
          \o <<0, 0, 0, 0, 0, 0, l \div 256, l % 256>>

\* the message schedule of one 64-byte block, words from..to appended to
\* the words before them, the first half evaluated before the second
RECURSIVE Sha1Schedule(_, _, _)
Sha1Schedule(w, from, to) ==
    IF from = to
    THEN Append(w, Rotl32(Xor32(w[from - 3], w[from - 8],
                                w[from - 14], w[from - 16]), 1))
    ELSE LET mid == (from + to) \div 2
             half == Sha1Schedule(w, from, mid)
         IN IF Len(half) = mid THEN Sha1Schedule(half, mid + 1, to)
            ELSE half

Sha1F(t, b, c, d) == <<F16(t, b[1], c[1], d[1]), F16(t, b[2], c[2], d[2])>>

\* 5A827999, 6ED9EBA1, 8F1BBCDC, CA62C1D6
Sha1K(t) ==
    IF t <= 20 THEN <<23170, 31129>>
    ELSE IF t <= 40 THEN <<28377, 60321>>
    ELSE IF t <= 60 THEN <<36635, 48348>>
    ELSE <<51810, 49622>>

\* one round on the working variables <<a, b, c, d, e>>
Sha1Round(v, w, t) ==
    <<Add32(Rotl32(v[1], 5), Sha1F(t, v[2], v[3], v[4]), v[5], Sha1K(t),
            w[t]),
      v[1], Rotl32(v[2], 30), v[3], v[4]>>

\* rounds from..to in order, the first half evaluated before the second
RECURSIVE Sha1Rounds(_, _, _, _)
Sha1Rounds(v, w, from, to) ==
    IF from = to THEN Sha1Round(v, w, from)
    ELSE LET mid == (from + to) \div 2
             half == Sha1Rounds(v, w, from, mid)
         IN IF Len(half) = 5 THEN Sha1Rounds(half, w, mid + 1, to)
            ELSE half

\* the 64-byte blocks of the padded message, one after the other
RECURSIVE Sha1Blocks(_, _)
Sha1Blocks(h, bs) ==
    IF bs = <<>> THEN h
    ELSE LET w == Sha1Schedule(
                     Tuple([t \in 1..16 |->
                               <<256 * bs[4 * t - 3] + bs[4 * t - 2],
                                 256 * bs[4 * t - 1] + bs[4 * t]>>]),
                     17, 80)
             v == Sha1Rounds(h, w, 1, 80)
             zero == <<0, 0>>
             sum == Tuple([i \in 1..5 |->
                              Add32(h[i], v[i], zero, zero, zero)])
         IN IF Len(w) = 80 /\ Len(sum) = 5
            THEN Sha1Blocks(sum, SubSeq(bs, 65, Len(bs)))
            ELSE h

\* hashlib.sha1(bs).digest(): 20 bytes; the initial hash value is
\* 67452301, EFCDAB89, 98BADCFE, 10325476, C3D2E1F0
Sha1(bs) ==
    LET h == Sha1Blocks(<<<<26437, 8961>>, <<61389, 43913>>,
                          <<39098, 56574>>, <<4146, 21622>>,
                          <<50130, 57840>>>>, Sha1Pad(bs))
    IN Tuple([i \in 1..20 |->
                 LET half == h[(i - 1) \div 4 + 1][((i - 1) % 4) \div 2 + 1]
                 IN IF i % 2 = 1 THEN half \div 256 ELSE half % 256])

\* the ASCII code of the base64 digit for a 6-bit value
Base64Digit(v) ==
    IF v < 26 THEN 65 + v
    ELSE IF v < 52 THEN 97 + (v - 26)
    ELSE IF v < 62 THEN 48 + (v - 52)
    ELSE IF v = 62 THEN 43 ELSE 47

\* base64.b64encode(bs), as ASCII codes: four digits for every three bytes,
\* zero bits added to the last digit, and "=" up to a multiple of 4
Base64Encode(bs) ==
    LET digits == (8 * Len(bs) + 5) \div 6
        Byte(k) == IF k <= Len(bs) THEN bs[k] ELSE 0
        Group(g) == 65536 * Byte(3 * g + 1) + 256 * Byte(3 * g + 2)
                    + Byte(3 * g + 3)
    IN Tuple([i \in 1..(4 * ((Len(bs) + 2) \div 3)) |->
                 IF i <= digits
                 THEN Base64Digit(
                         (Group((i - 1) \div 4)
                             \div (64 ^ (3 - ((i - 1) % 4)))) % 64)
                 ELSE 61])

\* b"258EAFA5-E914-47DA-95CA-C5AB0DC85B11"
WS_KEY ==
    <<50, 53, 56, 69, 65, 70, 65, 53, 45, 69, 57, 49, 52, 45, 52, 55, 68, 65,
      45, 57, 53, 67, 65, 45, 67, 53, 65, 66, 48, 68, 67, 56, 53, 66, 49, 49>>

\* candidates for os.urandom(16): b"the sample nonce" and the bytes 1..16
WsNonces ==
    {<<116, 104, 101, 32, 115, 97, 109, 112, 108, 101, 32, 110, 111, 110,
       99, 101>>,
     <<1, 2, 3, 4, 5, 6, 7, 8, 9, 10, 11, 12, 13, 14, 15, 16>>}
\* sec_key = base64.b64encode(os.urandom(16))
WsKeys == {Base64Encode(n) : n \in WsNonces}
\* base64.b64encode(hashlib.sha1(sec_key + WS_KEY).digest()).decode()
AcceptFor(key) == Base64Encode(Sha1(key \o WS_KEY))
\* the value of each key, computed once
Accepts == {<<k, AcceptFor(k)>> : k \in WsKeys}
\* b"dGhlIHNhbXBsZSBub25jZQ==" and b"s3pPLMBiTxaQ9kYGzzhZRbK+xOo="
SampleKey ==
    <<100, 71, 104, 108, 73, 72, 78, 104, 98, 88, 66, 115, 90, 83, 66, 117,
      98, 50, 53, 106, 90, 81, 61, 61>>
SampleAccept ==
    <<115, 51, 112, 80, 76, 77, 66, 105, 84, 120, 97, 81, 57, 107, 89, 71,
      122, 122, 104, 90, 82, 98, 75, 43, 120, 79, 111, 61>>
\* match, had the key of this handshake not entered the hash
MatchOfSampleKey(key) == (CHOOSE p \in Accepts : p[1] = SampleKey)[2]
\* match: the accept value the handshake of this key expects
Match(key) == (CHOOSE p \in Accepts : p[1] = key)[2]

\* str.lower() on the header values tried
Lower(v) ==
    CASE v = "WebSocket" -> "websocket"
      [] v = "Upgrade" -> "upgrade"
      [] OTHER -> v

WsProtocolArgs == {<<>>, <<"chat">>, <<"chat", "superchat">>}
\* A header value that lists names is a sequence of pieces: a name, "," or
\* " ".  The values tried have at most one name between two commas.
\* header.split(','): the pieces between the commas
RECURSIVE SplitComma(_, _)
SplitComma(h, cur) ==
    IF h = <<>> THEN <<cur>>
    ELSE IF h[1] = "," THEN <<cur>> \o SplitComma(Tail(h), <<>>)
    ELSE SplitComma(Tail(h), Append(cur, h[1]))
RECURSIVE LStrip(_)
LStrip(s) == IF s # <<>> /\ s[1] = " " THEN LStrip(Tail(s)) ELSE s
RECURSIVE RStrip(_)
RStrip(s) ==
    IF s # <<>> /\ s[Len(s)] = " " THEN RStrip(SubSeq(s, 1, Len(s) - 1))
    ELSE s
\* resp_protocols, <<>> when the response has no Sec-WebSocket-Protocol
RespProtocols(header) ==
    IF header = <<>> THEN <<>>
    ELSE LET parts == SplitComma(header, <<>>)
             \* proto.strip(): the name left, "" if none
             Strip(s) == LET t == RStrip(LStrip(s))
                         IN IF t = <<>> THEN "" ELSE t[1]
         IN Tuple([i \in 1..Len(parts) |-> Strip(parts[i])])
WsResponseHeaders ==
    [upgrade : {"", "websocket", "WebSocket", "h2c"},
     connection : {"", "upgrade", "Upgrade", "keep-alive"},
     accept : {<<>>} \cup {Match(k) : k \in WsKeys},
     protocol : {<<>>, <<"superchat", ",", " ", "chat">>, <<"mqtt">>,
                 <<" ", "mqtt", ",", "chat", " ", ",">>},
     extensions : {"", "permessage-deflate",
                   "permessage-deflate; client_no_context_takeover",
                   "permessage-deflate; client_max_window_bits=7"}]

\* the keyword arguments of the request _ws_connect makes, had it switched
\* redirects off
WsArgsNoRedirects ==
    { [method |-> "GET", data |-> FALSE, json |-> FALSE,
       headers |-> [cl |-> "absent", authz |-> FALSE],
       auth |-> FALSE, userinfo |-> FALSE, allow_redirects |-> FALSE,
       max_redirects |-> DefaultMaxRedirects, total |-> TRUE,
       verb |-> "_request", passed |-> TRUE] }

\* the keyword arguments of the request _ws_connect makes: method, headers
\* and auth are passed on, everything else has the default of _request
WsArgs ==
    { [method |-> "GET", data |-> FALSE, json |-> FALSE,
       headers |-> [cl |-> "absent", authz |-> FALSE],
       auth |-> FALSE, userinfo |-> FALSE, allow_redirects |-> TRUE,
       max_redirects |-> DefaultMaxRedirects, total |-> TRUE,
       verb |-> "_request", passed |-> FALSE] }

\* the handshake checks, had the Connection header been looked at first
WsCheckConnectionFirst(key, status, h) ==
    IF Lower(h.connection) # "upgrade" THEN "Invalid connection header"
    ELSE IF status # 101 THEN "Invalid response status"
    ELSE IF Lower(h.upgrade) # "websocket" THEN "Invalid upgrade header"
    ELSE IF h.accept # Match(key) THEN "Invalid challenge response"
    ELSE "-"

\* the handshake checks: the message of the first one that fails, or "-"
WsCheck(key, status, h) ==
    IF status # 101 THEN "Invalid response status"
    ELSE IF Lower(h.upgrade) # "websocket" THEN "Invalid upgrade header"
    ELSE IF Lower(h.connection) # "upgrade" THEN "Invalid connection header"
    ELSE IF h.accept # Match(key) THEN "Invalid challenge response"
    ELSE "-"

\* the subprotocol picked, had the caller's list been walked instead of the
\* server's
RECURSIVE PickProtocolClientOrder(_, _)
PickProtocolClientOrder(protocols, resp_protocols) ==
    IF protocols = <<>> \/ resp_protocols = <<>> THEN "None"
    ELSE IF \E i \in 1..Len(resp_protocols) : resp_protocols[i] = protocols[1]
    THEN protocols[1]
    ELSE PickProtocolClientOrder(Tail(protocols), resp_protocols)

\* the subprotocol picked: the first of the server's list that was asked for
RECURSIVE PickProtocol(_, _)
PickProtocol(protocols, resp_protocols) ==
    IF protocols = <<>> \/ resp_protocols = <<>> THEN "None"
    ELSE IF \E i \in 1..Len(protocols) : protocols[i] = resp_protocols[1]
    THEN resp_protocols[1]
    ELSE PickProtocol(protocols, Tail(resp_protocols))

\* ws_ext_parse(compress_hdrs): compress, notakeover, or the message of
\* the WSHandshakeError it raises
ExtParse(ext) ==
    CASE ext = "permessage-deflate" ->
            [compress |-> 15, notakeover |-> FALSE, error |-> "-"]
      [] ext = "permessage-deflate; client_no_context_takeover" ->
            [compress |-> 15, notakeover |-> TRUE, error |-> "-"]
      [] OTHER ->
            [compress |-> 0, notakeover |-> FALSE,
             error |-> "Invalid window size"]

\* compress and notakeover of the connection, had a missing extensions
\* header left the requested compression on
NegotiateCompressKeepsRequest(compress, compress_hdrs) ==
    IF compress # 0 /\ compress_hdrs # ""
    THEN ExtParse(compress_hdrs)
    ELSE [compress |-> compress, notakeover |-> FALSE, error |-> "-"]

\* compress and notakeover of the connection: if compression was asked for,
\* the extensions header is parsed, and a missing one switches compression
\* off; if it was not asked for, the header is not read
NegotiateCompress(compress, compress_hdrs) ==
    IF compress # 0
    THEN IF compress_hdrs # ""
         THEN ExtParse(compress_hdrs)
         ELSE [compress |-> 0, notakeover |-> FALSE, error |-> "-"]
    ELSE [compress |-> compress, notakeover |-> FALSE, error |-> "-"]

\* the response after the except clause of _ws_connect, had it caught
\* WSServerHandshakeError only
RespAfterWsFailureHandshakeOnly(e) ==
    IF e = "WSServerHandshakeError" THEN "closed" ELSE "open"

\* the response after the except clause of _ws_connect: resp.close() runs
\* for every BaseException
RespAfterWsFailure(e) == "closed"

\* _ws_connect up to its call of self.request
WsBegin ==
    /\ ws.pc = "idle"
    /\ \E key \in WsKeys, protocols \in WsProtocolArgs,
          compress \in {0, 15}, ssl_ok \in BOOLEAN :
         IF ~ssl_ok
         THEN /\ ws' = [NoWs EXCEPT !.pc = "done"]
              /\ wsResult' = [NoWsResult EXCEPT !.outcome = "TypeError"]
         ELSE /\ ws' = [pc |-> "request", sec_key |-> key,
                        protocols |-> protocols, compress |-> compress]
              /\ UNCHANGED wsResult
    /\ UNCHANGED <<default_headers, headers_in, result, mergePc, tmo, ck, hd>>
    /\ UNCHANGED sessVars
    /\ UNCHANGED reqVars

\* _ws_connect from the return of self.request on: the handshake checks,
\* the subprotocol, the compression extension, reader and writer
WsFinish ==
    /\ ws.pc = "request"
    /\ pc = "done"
    /\ ws' = [ws EXCEPT !.pc = "done"]
    /\ UNCHANGED <<default_headers, headers_in, result, mergePc, tmo, ck, hd>>
    /\ UNCHANGED sessVars
    /\ UNCHANGED <<pc, args, method, url, data, headers, auth, redirects,
                   history, req, conns, fault, handle, traceIdx, delivered,
                   exc, outcome>>
    /\ IF outcome # "ok"
       THEN /\ wsResult' = [NoWsResult EXCEPT !.outcome = outcome]
            /\ UNCHANGED <<resp, conn>>
       ELSE \E h \in WsResponseHeaders, install \in {"ok", "AssertionError"} :
            LET failed == WsCheck(ws.sec_key, resp.status, h)
                ext == NegotiateCompress(ws.compress, h.extensions)
                e == IF failed # "-" \/ ext.error # "-"
                     THEN "WSServerHandshakeError"
                     ELSE IF conn # "open" THEN "AssertionError"
                     ELSE install
            IN /\ conn # "open" => install = "AssertionError"
               /\ IF e # "ok"
                  THEN /\ wsResult' =
                            [NoWsResult EXCEPT
                                !.outcome = e,
                                !.message = IF failed # "-" THEN failed
                                            ELSE IF e = "AssertionError"
                                            THEN "-" ELSE ext.error,
                                !.status = resp.status,
                                !.headers = h]
                       /\ resp' = [resp EXCEPT
                                      !.state = RespAfterWsFailure(e)]
                       /\ conn' = IF conn = "open"
                                  THEN RespAfterWsFailure(e) ELSE conn
                  ELSE /\ wsResult' =
                            [outcome |-> "ok", message |-> "-",
                             status |-> resp.status, headers |-> h,
                             protocol |->
                                 PickProtocol(ws.protocols,
                                              RespProtocols(h.protocol)),
                             compress |-> ext.compress,
                             notakeover |-> ext.notakeover,
                             resp |-> resp.id]
                       /\ UNCHANGED <<resp, conn>>

\* the coroutine of self.request(...) that _ws_connect awaits is entered
WsRequest ==
    /\ ws.pc = "request"
    /\ RequestCall(WsArgs)

\* One WebSocket handshake on an open session.
NextWs ==
    \/ WsBegin
    \/ WsRequest
    \/ RequestSteps
    \/ WsFinish

SpecWs == InitOwned /\ [][NextWs]_vars

\* ------------------------------------------------- timeouts of _request
\* One call of _request as its clocks see it: the policy it selects, the
\* timer of the whole call, the bound on each connect, and the phases that
\* take time (connect, send and response start, reading the body).  Time is
\* counted in units from tm.start().
MaxDelay == 2
Durations == {1, 5}
\* ClientTimeout values: total and connect are timed, sock_read and
\* sock_connect are handed to the protocol and the connector
Policies ==
    [total : {NoLimit} \cup Durations, connect : {NoLimit} \cup Durations,
     sock_read : {NoLimit, 5}, sock_connect : {NoLimit, 5}]
\* the timeout argument: sentinel, a bare duration (kept in total), or a
\* ClientTimeout
TimeoutArgs ==
    {<<"sentinel", NoPolicy>>}
    \cup {<<"duration", [NoPolicy EXCEPT !.total = d]>> : d \in Durations}
    \cup {<<"policy", p>> : p \in Policies}

\* real_timeout, had a bare duration been laid over the session's policy
RealTimeoutOverSession(session, kind, arg) ==
    IF kind = "sentinel" THEN session
    ELSE IF kind = "duration" THEN [session EXCEPT !.total = arg.total]
    ELSE arg

\* real_timeout: the session's policy, ClientTimeout(total=timeout) for a
\* bare duration, or the policy given
RealTimeout(session, kind, arg) ==
    IF kind = "sentinel" THEN session
    ELSE IF kind = "duration"
    THEN [total |-> arg.total, connect |-> NoLimit, sock_read |-> NoLimit,
          sock_connect |-> NoLimit]
    ELSE arg

\* the duration of the timer of the whole call, had none been started
TotalBoundNone(real) == NoLimit
\* TimeoutHandle(self._loop, real_timeout.total)
TotalBound(real) == real.total
\* the bound on a connect, had the total been used for it
ConnectBoundTotal(real) == real.total
\* CeilTimeout(real_timeout.connect)
ConnectBound(real) == real.connect

\* How a phase that starts at time now and needs d units ends, the timer of
\* the call being due at total and the bound of the phase at sub (NoLimit:
\* not set): it completes unless a timer is due before its end, the timer
\* due first stops it, and timers due at the same time as another or as the
\* end go either way.
PhaseEnds(now, d, total, sub) ==
    LET end == now + d
        due(t) == t # NoLimit /\ t <= end
        first(t, u) == u = NoLimit \/ t <= u
    IN {[by |-> "end", at |-> end] :
            x \in {e \in {end} :
                      /\ total # NoLimit => total >= end
                      /\ sub # NoLimit => sub >= end}}
       \cup {[by |-> "total", at |-> IF total > now THEN total ELSE now] :
                x \in {e \in {end} : due(total) /\ first(total, sub)}}
       \cup {[by |-> "sub", at |-> sub] :
                x \in {e \in {end} : due(sub) /\ first(sub, total)}}

\* _request up to the loop: the policy is selected, the timer started
TmCall ==
    /\ tmo.pc = "idle"
    /\ \E session \in Policies, a \in TimeoutArgs :
         tmo' = [NoTmo EXCEPT
                    !.pc = "connect", !.session = session, !.kind = a[1],
                    !.arg = a[2],
                    !.real = RealTimeout(session, a[1], a[2]),
                    !.hop = 1]
    /\ UNCHANGED <<default_headers, headers_in, result, mergePc, ws, wsResult,
                   ck, hd>>
    /\ UNCHANGED sessVars
    /\ UNCHANGED reqVars

\* await self._connector.connect(req, traces, timeout=real_timeout) under
\* CeilTimeout(real_timeout.connect); a connect that completes is followed
\* by set_response_params(read_timeout=real_timeout.sock_read)
TmConnect ==
    /\ tmo.pc = "connect"
    /\ \E d \in 0..MaxDelay :
         LET sub == IF ConnectBound(tmo.real) = NoLimit THEN NoLimit
                    ELSE tmo.now + ConnectBound(tmo.real)
         IN \E e \in PhaseEnds(tmo.now, d, TotalBound(tmo.real), sub) :
              tmo' = [tmo EXCEPT
                         !.now = e.at,
                         !.connect_d = d,
                         !.connect_end = e.by,
                         !.applied =
                             [total |-> TotalBound(tmo.real),
                              connect |-> ConnectBound(tmo.real),
                              sock_connect |-> tmo.real.sock_connect,
                              sock_read |-> IF e.by = "end"
                                            THEN tmo.real.sock_read
                                            ELSE @.sock_read],
                         !.conn = e.by = "end",
                         !.pc = IF e.by = "end" THEN "start" ELSE "done",
                         !.outcome = CASE e.by = "end" -> "-"
                                       [] e.by = "total" -> "TimeoutError"
                                       [] e.by = "sub" ->
                                            "ServerTimeoutError"]
    /\ UNCHANGED <<default_headers, headers_in, result, mergePc, ws, wsResult,
                   ck, hd>>
    /\ UNCHANGED sessVars
    /\ UNCHANGED reqVars

\* await req.send(conn), await resp.start(conn), then the redirect
\* decision: another hop after resp.release(), or the response is returned,
\* the timer handed to its connection if it holds one and cancelled if not
TmStart ==
    /\ tmo.pc = "start"
    /\ \E d \in 0..MaxDelay, redirect \in BOOLEAN, has_conn \in BOOLEAN :
         \E e \in PhaseEnds(tmo.now, d, TotalBound(tmo.real), NoLimit) :
           /\ redirect => tmo.hop < MaxHops
           /\ tmo' =
                IF e.by = "total"
                THEN [tmo EXCEPT !.now = e.at, !.pc = "done",
                                 !.conn = FALSE,
                                 !.outcome = "TimeoutError"]
                ELSE IF redirect
                THEN [tmo EXCEPT !.now = e.at, !.pc = "connect",
                                 !.conn = FALSE, !.hop = @ + 1]
                ELSE IF has_conn
                THEN [tmo EXCEPT !.now = e.at, !.pc = "body",
                                 !.outcome = "ok"]
                ELSE [tmo EXCEPT !.now = e.at, !.pc = "done",
                                 !.conn = FALSE, !.consumed = TRUE,
                                 !.outcome = "ok"]
    /\ UNCHANGED <<default_headers, headers_in, result, mergePc, ws, wsResult,
                   ck, hd>>
    /\ UNCHANGED sessVars
    /\ UNCHANGED reqVars

\* the caller reads the body of the response returned; the timer of the
\* call runs until the connection is released
TmBody ==
    /\ tmo.pc = "body"
    /\ \E d \in 0..MaxDelay :
         \E e \in PhaseEnds(tmo.now, d, TotalBound(tmo.real), NoLimit) :
           tmo' = [tmo EXCEPT
                      !.now = e.at, !.pc = "done", !.conn = FALSE,
                      !.consumed = e.by = "end",
                      !.outcome = IF e.by = "end" THEN "ok"
                                  ELSE "TimeoutError"]
    /\ UNCHANGED <<default_headers, headers_in, result, mergePc, ws, wsResult,
                   ck, hd>>
    /\ UNCHANGED sessVars
    /\ UNCHANGED reqVars

NextTimeout ==
    \/ TmCall
    \/ TmConnect
    \/ TmStart
    \/ TmBody

SpecTimeout == InitOwned /\ [][NextTimeout]_vars

\* ------------------------------------------------- cookies of _request
\* Calls of _request that run on one session at the same time, as the
\* cookie jar of the session sees them.  A cookie is the pair <<name,
\* value>>; the jar holds pairs <<host the cookie is scoped to, cookie>>.
\* the cookies a response may set
CookieNames == {<<"sid", "server">>}
\* the cookies argument of a call that shares no name with the jar
PlainCookies == {{}, {<<"own", "caller">>}}
\* the cookies argument of a call: None, or names the jar may hold too
CallCookies == SUBSET {<<"sid", "caller">>, <<"own", "caller">>}
\* self._cookie_jar.filter_cookies(url): the cookies stored for the host
FilterCookies(jar, host) == {c[2] : c \in {x \in jar : x[1] = host}}
\* self._cookie_jar.update_cookies(cookies, url): a cookie replaces the one
\* stored under its name for the host
UpdateCookies(jar, cookies, host) ==
    {x \in jar : ~(x[1] = host /\ \E c \in cookies : c[1] = x[2][1])}
    \cup {<<host, c>> : c \in cookies}
\* the cookies of the request, had the jar's value won for a shared name
LoadCookiesJarWins(all_cookies, req_cookies) ==
    all_cookies
    \cup {c \in req_cookies : \A q \in all_cookies : q[1] # c[1]}
\* all_cookies.load(req_cookies): the cookies of the call are stored into
\* the filtered cookies under their names
LoadCookies(all_cookies, req_cookies) ==
    req_cookies
    \cup {c \in all_cookies : \A q \in req_cookies : q[1] # c[1]}
\* the jar after a response started, had only the response that ends the
\* loop been stored
JarAfterStartFinalOnly(jar, cookies, host, redirect) ==
    IF redirect THEN jar ELSE UpdateCookies(jar, cookies, host)
\* the jar after a response started: update_cookies runs before the
\* redirect test, for every response
JarAfterStart(jar, cookies, host, redirect) ==
    UpdateCookies(jar, cookies, host)

\* session.request(url, cookies=...) is entered by task r
CkCall(r, Cookies) ==
    /\ ck.task[r].pc = "idle"
    /\ \E host \in Hosts, own \in Cookies :
         ck' = [ck EXCEPT !.task[r] =
                   [NoTask EXCEPT !.pc = "prepare", !.host = host,
                                   !.hop = 1, !.own = own]]
    /\ UNCHANGED <<default_headers, headers_in, result, mergePc, ws, wsResult,
                   tmo, hd>>
    /\ UNCHANGED sessVars
    /\ UNCHANGED reqVars

\* the top of the loop up to the await of connect: the jar is filtered for
\* the URL of the hop, the cookies of the call are laid over the result,
\* and the request object is built with them
CkPrepare(r) ==
    /\ ck.task[r].pc = "prepare"
    /\ ck' = [ck EXCEPT
                 !.task[r].pc = "connect",
                 !.task[r].sent =
                     LoadCookies(FilterCookies(ck.jar, ck.task[r].host),
                                 ck.task[r].own),
                 !.task[r].known = FilterCookies(ck.stored, ck.task[r].host),
                 !.task[r].trail = <<"filter">>]
    /\ UNCHANGED <<default_headers, headers_in, result, mergePc, ws, wsResult,
                   tmo, hd>>
    /\ UNCHANGED sessVars
    /\ UNCHANGED reqVars

\* await self._connector.connect(...) returns a connection
CkConnect(r) ==
    /\ ck.task[r].pc = "connect"
    /\ ck' = [ck EXCEPT !.task[r].pc = "send",
                        !.task[r].trail = Append(@, "connect")]
    /\ UNCHANGED <<default_headers, headers_in, result, mergePc, ws, wsResult,
                   tmo, hd>>
    /\ UNCHANGED sessVars
    /\ UNCHANGED reqVars

\* await req.send(conn) returns the response object
CkSend(r) ==
    /\ ck.task[r].pc = "send"
    /\ ck' = [ck EXCEPT !.task[r].pc = "start",
                        !.task[r].trail = Append(@, "send")]
    /\ UNCHANGED <<default_headers, headers_in, result, mergePc, ws, wsResult,
                   tmo, hd>>
    /\ UNCHANGED sessVars
    /\ UNCHANGED reqVars

\* await resp.start(conn) returns: the jar is updated with the cookies of
\* the response for the URL of the response, then the redirect test sends
\* the loop to the next hop or ends it, and with it the locals of the call
CkStart(r) ==
    /\ ck.task[r].pc = "start"
    /\ \E cookies \in SUBSET CookieNames, redirect \in BOOLEAN,
          target \in Hosts :
         /\ redirect => ck.task[r].hop < MaxHops
         /\ ~redirect => target = ck.task[r].host
         /\ ck' = [ck EXCEPT
                      !.jar = JarAfterStart(@, cookies, ck.task[r].host,
                                            redirect),
                      !.stored = UpdateCookies(@, cookies, ck.task[r].host),
                      !.task[r] =
                          IF redirect
                          THEN [@ EXCEPT !.pc = "prepare", !.host = target,
                                         !.hop = @ + 1,
                                         !.trail = @ \o <<"start", "update">>]
                          ELSE [NoTask EXCEPT
                                   !.pc = "done",
                                   !.trail = ck.task[r].trail
                                             \o <<"start", "update">>]]
    /\ UNCHANGED <<default_headers, headers_in, result, mergePc, ws, wsResult,
                   tmo, hd>>
    /\ UNCHANGED sessVars
    /\ UNCHANGED reqVars

NextCookies ==
    \/ \E r \in Tasks : CkCall(r, PlainCookies)
    \/ \E r \in Tasks : CkPrepare(r)
    \/ \E r \in Tasks : CkConnect(r)
    \/ \E r \in Tasks : CkSend(r)
    \/ \E r \in Tasks : CkStart(r)

SpecCookies == InitOwned /\ [][NextCookies]_vars

\* One call with any cookies argument on a session of its own.
NextCallCookies ==
    \/ CkCall(1, CallCookies)
    \/ CkPrepare(1)
    \/ CkConnect(1)
    \/ CkSend(1)
    \/ CkStart(1)

SpecCallCookies == InitOwned /\ [][NextCallCookies]_vars

\* ------------------------------------------------------------ properties
NoCloseRunning == \A c \in Closers : closePc[c] = "idle"
NothingDelivered == \A o \in Observers : delivered[o] = NoSignals

\* C1: a call of _request made while the session is closed (connector
\* reference gone, or the connector closed) ends with RuntimeError at entry:
\* no timer handle was started, no signal was sent to any observer, no
\* request was built and no connection was asked for.
C1_ClosedSessionRejects ==
    (pc # "idle" /\ args.closedAtEntry) =>
        /\ pc = "done"
        /\ outcome = "RuntimeError"
        /\ handle = "unstarted"
        /\ NothingDelivered
        /\ req = NoReq
        /\ conns = 0

\* C1 witness: a call rejected on a session whose connector was closed from
\* outside while the session still holds the reference
C1_Witness ==
    /\ pc = "done" /\ outcome = "RuntimeError"
    /\ connector = TheConnector /\ log.closedOutside

\* C2, as claimed: after one or more sequential close() calls the session is
\* closed, session.connector is None and connector.close() was called at
\* most once.
C2_Original ==
    (log.closes >= 1 /\ ~log.overlapped /\ NoCloseRunning) =>
        /\ connector = NoConnector \/ connectorClosed
        /\ connector = NoConnector
        /\ teardowns <= 1

\* C2, amended: after one or more sequential close() calls the session is
\* closed and connector.close() was called at most once; session.connector
\* is None unless the connector had been closed from outside, in which case
\* close() does nothing and the session keeps the reference.
C2_CloseIdempotent ==
    (log.closes >= 1 /\ ~log.overlapped /\ NoCloseRunning) =>
        /\ connector = NoConnector \/ connectorClosed
        /\ connector # NoConnector => log.closedOutside
        /\ teardowns <= 1

\* C2 witness: two close() calls have returned, one after the other, on a
\* session that owned its connector; the connector was torn down once
C2_Witness ==
    /\ log.closes = 2 /\ ~log.overlapped /\ NoCloseRunning
    /\ connector_owner /\ teardowns = 1 /\ connector = NoConnector

\* C3, as claimed: after any close() the connector was torn down exactly if
\* the ownership flag is set (set: closed by the session, cleared: not
\* touched by it), session.connector is None and the session is closed.
C3_Original ==
    (log.closes >= 1 /\ NoCloseRunning) =>
        /\ connector = NoConnector
        /\ connector_owner => (teardowns >= 1 /\ connectorClosed)
        /\ ~connector_owner =>
              (teardowns = 0 /\ (connectorClosed => log.closedOutside))

\* C3, amended: a close() called while the session is open tears the
\* connector down exactly if the ownership flag is set; when it returns,
\* session.connector is None and the session is closed.  A session never
\* tears down a connector it does not own.
C3_CloseTearsDownIffOwner ==
    /\ ~connector_owner =>
          (teardowns = 0 /\ (connectorClosed => log.closedOutside))
    /\ log.closeOnOpenReturned =>
          /\ connector = NoConnector
          /\ connector_owner => (teardowns >= 1 /\ connectorClosed)

\* C3 witness: close() has returned on a borrowed connector, which is open
C3_Witness ==
    /\ log.closeOnOpenReturned /\ ~connector_owner
    /\ connector = NoConnector /\ ~connectorClosed

\* C4: detach() drops the reference (the session is closed from then on)
\* and leaves the connector as it is; once detached, no step of the session,
\* a later close() included, calls connector.close(), and the connector's
\* closed flag changes only if the connector is closed from outside.
C4_DetachLeavesConnector ==
    [][ /\ (~log.detached /\ log'.detached) =>
              /\ connector' = NoConnector
              /\ connectorClosed' = connectorClosed
              /\ teardowns' = teardowns
        /\ log.detached =>
              /\ connector' = NoConnector
              /\ teardowns' = teardowns
              /\ connectorClosed' # connectorClosed =>
                    (~log.closedOutside /\ log'.closedOutside) ]_vars

\* C4 witness: an owning session was detached, a later close() has returned
\* and the connector is still open
C4_Witness ==
    /\ log.detached /\ log.closeAfterDetach /\ connector_owner
    /\ connector = NoConnector /\ ~connectorClosed /\ teardowns = 0

\* C5, as claimed: a call that passed the closed check at entry is not made
\* to fail by a close() or detach() that runs while it is suspended.  The
\* only failure the session's closing causes in the call is the assertion
\* that self._connector is not None.
C5_InFlightSurvivesClose ==
    ~args.closedAtEntry => exc # "AssertionError"

\* the downgrade cases as the claim lists them
ClaimedDowngrade(status, m) ==
    \/ status = 303 /\ m # "HEAD"
    \/ status \in {301, 302} /\ m = "POST"

\* the request of a later hop is built and not yet answered: resp is still
\* the redirect response of the hop before
NextHopBuilt == pc \in {"connect", "send"} /\ req.hop >= 2

\* C6, as claimed: for every followed redirect, 303 with a non-HEAD method
\* or 301/302 with POST makes the next request a GET without body and
\* without Content-Length header; every other combination leaves method and
\* body as they were.
C6_RedirectMethodPolicy ==
    NextHopBuilt =>
        IF ClaimedDowngrade(resp.status, resp.method)
        THEN /\ req.method = "GET"
             /\ ~req.data
             /\ req.headers.cl = "absent"
        ELSE /\ req.method = resp.method
             /\ req.data = resp.data

\* C7, as claimed, for redirect targets that embed no credentials of their
\* own: the request sent after a redirect to another origin carries no auth
\* credential and no Authorization header.
C7_CrossOriginDropsAuth ==
    (NextHopBuilt /\ resp.crossed /\ ~resp.loc.userinfo) =>
        /\ req.auth = "None"
        /\ ~req.headers.authz

\* C8: with max_redirects = N >= 1, the redirect counter reaching N raises
\* TooManyRedirects: the history then holds the N redirect responses in hop
\* order, N connections were acquired, and the caller gets TooManyRedirects
\* (unless an on_request_exception observer raises on the way out); a
\* request never acquires more than N connections.
C8_TooManyRedirects ==
    LET N == args.max_redirects IN
    /\ (N >= 1) => conns <= N
    /\ (N >= 1 /\ redirects >= N) =>
          /\ exc = "TooManyRedirects"
          /\ redirects = N
          /\ history = [i \in 1..N |-> i]
          /\ conns = N
          /\ pc \in {"trace_exception", "done"}
    /\ (pc = "done" /\ exc = "TooManyRedirects") =>
          outcome \in {"TooManyRedirects", "ObserverError"}
    /\ exc = "TooManyRedirects" => (N >= 1 /\ redirects = N)

\* C8 witness: max_redirects = 2, the second redirect response has made the
\* call fail with TooManyRedirects carrying both responses
C8_Witness ==
    /\ args.max_redirects = 2 /\ pc = "done"
    /\ outcome = "TooManyRedirects" /\ history = <<1, 2>> /\ conns = 2

\* C9, as claimed: with max_redirects = 0 and redirects allowed, the first
\* redirect response makes the call fail with TooManyRedirects.
C9_Original ==
    (args.max_redirects = 0 /\ redirects >= 1) => exc = "TooManyRedirects"

\* C9, amended: the limit test is `max_redirects and redirects >=
\* max_redirects`, so max_redirects = 0 switches the limit off: however many
\* redirect responses the loop has counted, the call does not fail with
\* TooManyRedirects.
C9_ZeroMeansNoLimit ==
    (pc # "idle" /\ args.max_redirects = 0) =>
        /\ exc # "TooManyRedirects"
        /\ outcome # "TooManyRedirects"

\* C9 witness: max_redirects = 0 and a second connection was acquired for
\* the target of a redirect
C9_Witness ==
    args.max_redirects = 0 /\ redirects = 1 /\ conns = 2 /\ pc = "send"

\* C10, as claimed, for the observers whose own callbacks do not raise: no
\* such observer gets both on_request_end and on_request_exception for one
\* call, whatever another observer's callback does, and a call that has
\* returned its response has given every observer on_request_end only.
C10_EndXorException ==
    /\ \A o \in Observers :
          ~delivered[o].raised =>
              ~(delivered[o].end >= 1 /\ delivered[o].exception >= 1)
    /\ (pc = "done" /\ outcome = "ok") =>
          \A o \in Observers :
              delivered[o].end = 1 /\ delivered[o].exception = 0

\* C11: trace order of a plain success.  Every observer has got its one
\* on_request_start before the first connection is acquired; on_request_end
\* reaches an observer only after its start signal and after the response
\* start was received; a call that returned a response without having met a
\* redirect response has given every observer exactly one start and one
\* end signal, no redirect signal and no exception signal.
C11_PlainSuccessTraces ==
    /\ conns >= 1 => \A o \in Observers : delivered[o].start = 1
    /\ \A o \in Observers :
          delivered[o].end >= 1 =>
              (delivered[o].start = 1 /\ resp.status # 0)
    /\ (pc = "done" /\ outcome = "ok" /\ redirects = 0
            /\ resp.status \notin RedirectStatuses) =>
          \A o \in Observers :
              /\ delivered[o].start = 1 /\ delivered[o].end = 1
              /\ delivered[o].redirect = 0 /\ delivered[o].exception = 0

\* C11 witness: a call answered 200 on its first connection has returned
C11_Witness ==
    /\ pc = "done" /\ outcome = "ok" /\ resp.status = 200
    /\ conns = 1 /\ redirects = 0
    /\ \A o \in Observers : delivered[o].end = 1

\* an error raised inside the request loop is being propagated or has
\* ended the call
LoopFailure == exc # "-" /\ fault.at # "trace_end"

\* C12, as claimed: when an error raised inside the loop has ended the call,
\* every observer has got on_request_exception exactly once with that error
\* and no on_request_end, and the caller has got that same error.
C12_Original ==
    (pc = "done" /\ LoopFailure) =>
        /\ \A o \in Observers :
              /\ delivered[o].exception = 1 /\ delivered[o].err = exc
              /\ delivered[o].end = 0
        /\ outcome = exc

\* C12, amended: after an error raised inside the loop no observer gets
\* on_request_end, and an observer gets on_request_exception at most once,
\* with that error.  If no on_request_exception callback raises, every
\* observer gets it and the caller gets the same error; if the callback of
\* observer k raises, the observers after k get nothing and the caller gets
\* the callback's error.  The caller never gets a result.
C12_FailurePath ==
    LoopFailure =>
        /\ \A o \in Observers :
              /\ delivered[o].end = 0
              /\ delivered[o].exception <= 1
              /\ delivered[o].exception = 1 => delivered[o].err = exc
        /\ pc \in {"trace_exception", "done"}
        /\ outcome # "ok"
        /\ (pc = "done" /\ traceIdx = 0) =>
              /\ outcome = exc
              /\ \A o \in Observers : delivered[o].exception = 1
        /\ (pc = "done" /\ traceIdx >= 1) =>
              /\ outcome = "ObserverError"
              /\ delivered[traceIdx].raised
              /\ \A o \in Observers :
                    delivered[o].exception = IF o <= traceIdx THEN 1 ELSE 0

\* C12 witness: connector.connect failed, every observer was told so and
\* the caller got the connector's error
C12_Witness ==
    /\ pc = "done" /\ fault.at = "connect"
    /\ outcome = "ClientConnectorError"
    /\ \A o \in Observers :
          delivered[o].exception = 1 /\ delivered[o].err = outcome

\* C13: once req.send or resp.start has failed, with whatever kind of
\* error, the connection acquired for the hop is closed, and so is the
\* response object if the failure came from resp.start; this holds from the
\* moment the error leaves the handlers, before any exception signal.
C13_SendFailureClosesConnection ==
    fault.at \in {"send", "start"} =>
        /\ conn = "closed"
        /\ fault.at = "start" => (resp.id = conns /\ resp.state = "closed")
        /\ pc \in {"trace_exception", "done"}

\* C13 witness: resp.start was cancelled on the second hop; the exception
\* signals are about to be sent
C13_Witness ==
    /\ fault.at = "start" /\ fault.raw = "CancelledError"
    /\ conns = 2 /\ pc = "trace_exception" /\ traceIdx = 1

\* C14: a failure of req.send or resp.start that is a ClientError
\* propagates as raised; an OSError that is no ClientError propagates as
\* ClientOSError with the same args (errno, message); any other error
\* propagates as raised.
C14_SendErrorClassification ==
    fault.at \in {"send", "start"} =>
        /\ fault.exc_args = fault.args
        /\ exc = IF fault.raw \in {"ClientError", "ClientOSError",
                                    "ClientConnectorError"} THEN fault.raw
                 ELSE IF fault.raw = "OSError" THEN "ClientOSError"
                 ELSE fault.raw

\* C14 witness: req.send raised OSError(EPIPE) and the caller got
\* ClientOSError(EPIPE)
C14_Witness ==
    /\ fault.at = "send" /\ fault.raw = "OSError" /\ fault.args = "EPIPE"
    /\ pc = "done" /\ outcome = "ClientOSError" /\ fault.exc_args = "EPIPE"

\* C15: a timeout raised by connector.connect propagates as
\* ServerTimeoutError naming the URL of the hop; any other failure of
\* connector.connect propagates as raised; either way no connection was
\* acquired for the hop and its request was not sent.
C15_ConnectClassification ==
    fault.at = "connect" =>
        /\ fault.raw = "TimeoutError" =>
              (exc = "ServerTimeoutError" /\ fault.url = req.host)
        /\ fault.raw # "TimeoutError" =>
              (exc = fault.raw /\ fault.exc_args = fault.args)
        /\ conns = req.hop - 1
        /\ resp.id < req.hop
        /\ conn # "open"

\* C15 witness: connecting to the target of a redirect timed out
C15_Witness ==
    /\ fault.at = "connect" /\ fault.raw = "TimeoutError"
    /\ pc = "done" /\ outcome = "ServerTimeoutError"
    /\ req.hop = 2 /\ req.host = "b.example"

\* C16: a call given both data and json ends with ValueError at once: no
\* timer handle was started, no signal was sent to any observer, no request
\* was built and no connection was asked for.
C16_DataAndJsonRejected ==
    (pc # "idle" /\ args.both) =>
        /\ pc = "done"
        /\ outcome = "ValueError"
        /\ handle = "unstarted"
        /\ NothingDelivered
        /\ req = NoReq
        /\ conns = 0 /\ conn = "none"

\* C16 witness: the call with data and json was rejected
C16_Witness ==
    pc = "done" /\ args.both /\ outcome = "ValueError" /\ ~args.closedAtEntry

\* the values, in order, of the items of md filed under the key of `key`
RECURSIVE ValuesOf(_, _)
ValuesOf(md, key) ==
    IF md = <<>> THEN <<>>
    ELSE IF Identity(md[1][1]) = Identity(key)
    THEN <<md[1][2]>> \o ValuesOf(Tail(md), key)
    ELSE ValuesOf(Tail(md), key)

\* C17, as claimed: a header name the caller passes several times, in
\* whatever letter case, has in the merged headers exactly the caller's
\* values, in the caller's order: the first replaced the session default,
\* the later ones were appended, no session default of that name is left.
C17_DuplicateHeadersMerge ==
    mergePc = "done" =>
        \A n \in HeaderNames :
            Len(ValuesOf(headers_in, n)) >= 2 =>
                ValuesOf(result, n) = ValuesOf(headers_in, n)

\* the request of a handshake has been entered
WsRequested == ws.pc # "idle" /\ pc # "idle"
\* the handshake is over and its request had returned a response
WsAnswered == ws.pc = "done" /\ outcome = "ok"

C19_HandshakeChecksInOrder ==
    WsAnswered =>
        LET h == wsResult.headers
            first == IF wsResult.status # 101
                     THEN "Invalid response status"
                     ELSE IF Lower(h.upgrade) # "websocket"
                     THEN "Invalid upgrade header"
                     ELSE IF Lower(h.connection) # "upgrade"
                     THEN "Invalid connection header"
                     ELSE IF h.accept # Match(ws.sec_key)
                     THEN "Invalid challenge response"
                     ELSE "-"
        IN /\ wsResult.status = resp.status
           /\ first # "-" =>
                 /\ wsResult.outcome = "WSServerHandshakeError"
                 /\ wsResult.message = first
           /\ wsResult.outcome = "ok" => first = "-"

\* C19 witness: status and Upgrade pass, Connection and the accept value
\* are both wrong, the error names the Connection header
C19_Witness ==
    /\ WsAnswered /\ wsResult.status = 101
    /\ wsResult.headers.upgrade = "WebSocket"
    /\ wsResult.headers.connection = "keep-alive"
    /\ wsResult.headers.accept = <<>>
    /\ wsResult.message = "Invalid connection header"

\* C20: when the handshake fails after its request returned a response
\* (a check fails, the extension header does not parse, reader and writer
\* cannot be installed), the response is closed and holds no connection
\* when the error reaches the caller; when it succeeds the response is open,
\* holds its connection and is the one handed to the WebSocket handle.
C20_WsFailureClosesResponse ==
    WsAnswered =>
        /\ wsResult.outcome # "ok" =>
              (resp.state = "closed" /\ conn # "open")
        /\ wsResult.outcome = "ok" =>
              /\ resp.state = "open" /\ conn = "open"
              /\ wsResult.resp = resp.id

\* C20 witness: all checks passed, the extension header did not parse, the
\* response was closed
C20_Witness ==
    /\ WsAnswered /\ wsResult.outcome = "WSServerHandshakeError"
    /\ wsResult.message = "Invalid window size"
    /\ resp.state = "closed" /\ conn = "closed"

\* the first three handshake checks passed on the response of the request
WsThreePass ==
    /\ WsAnswered /\ wsResult.status = 101
    /\ Lower(wsResult.headers.upgrade) = "websocket"
    /\ Lower(wsResult.headers.connection) = "upgrade"

\* the value of the sample key is the sample accept value
SampleValue ==
    SampleKey \in WsKeys /\ <<SampleKey, SampleAccept>> \in Accepts

\* C21: with the other three checks passing, a Sec-WebSocket-Accept that is
\* absent or differs from base64(SHA1(key ++ GUID)) for the key of this
\* handshake, the right value of another key included, fails the handshake
\* with WSServerHandshakeError "Invalid challenge response"; the right value
\* passes the check, and the handshake succeeds unless a later step
\* (extension parsing, installing reader and writer) fails; the value for
\* the key dGhlIHNhbXBsZSBub25jZQ== is s3pPLMBiTxaQ9kYGzzhZRbK+xOo=.
C21_AcceptKeyCheck ==
    /\ SampleValue
    /\ WsThreePass =>
          LET right == <<ws.sec_key, wsResult.headers.accept>> \in Accepts
          IN /\ ~right =>
                   /\ wsResult.outcome = "WSServerHandshakeError"
                   /\ wsResult.message = "Invalid challenge response"
             /\ right =>
                   \/ wsResult.outcome = "ok"
                   \/ wsResult.outcome = "AssertionError"
                   \/ /\ wsResult.outcome = "WSServerHandshakeError"
                      /\ wsResult.message = "Invalid window size"

\* C21 witness: the response carries the right value of the other key and
\* the handshake of the sample key fails on the challenge
C21_Witness ==
    /\ WsThreePass
    /\ ws.sec_key = SampleKey
    /\ \E p \in Accepts : p[1] # SampleKey /\ p[2] = wsResult.headers.accept
    /\ wsResult.message = "Invalid challenge response"

\* C21, second witness: the right value for the sample key, the handshake
\* succeeds
C21_WitnessSuccess ==
    /\ WsThreePass
    /\ ws.sec_key = SampleKey
    /\ wsResult.headers.accept = SampleAccept
    /\ wsResult.outcome = "ok"

\* the elements of a sequence
Elements(seq) == {seq[i] : i \in 1..Len(seq)}

\* C22: the subprotocol of a successful handshake is the first value of the
\* server's Sec-WebSocket-Protocol list, in the server's order, that the
\* caller requested; it is none when the header is absent, when no listed
\* value was requested and when the caller requested none; it is always
\* none or one of the requested values.
C22_SubprotocolChoice ==
    (WsAnswered /\ wsResult.outcome = "ok") =>
        LET server == RespProtocols(wsResult.headers.protocol)
            asked == Elements(ws.protocols)
            hits == {i \in 1..Len(server) : server[i] \in asked}
        IN /\ wsResult.protocol \in {"None"} \cup asked
           /\ hits = {} => wsResult.protocol = "None"
           /\ hits # {} =>
                 \E i \in hits :
                    /\ \A j \in hits : i <= j
                    /\ wsResult.protocol = server[i]

\* C22 witness: the caller asked for chat then superchat, the server lists
\* superchat then chat, superchat is picked
C22_Witness ==
    /\ WsAnswered /\ wsResult.outcome = "ok"
    /\ ws.protocols = <<"chat", "superchat">>
    /\ wsResult.headers.protocol = <<"superchat", ",", " ", "chat">>
    /\ wsResult.protocol = "superchat"

\* the timed call has attempted a connect, so its bounds have been applied
TmApplied == tmo.connect_end # "-"
\* the bounds applied are those of policy p; the socket-read value reaches
\* the protocol only after a connect that completed
AppliedIs(p) ==
    /\ tmo.applied.total = p.total
    /\ tmo.applied.connect = p.connect
    /\ tmo.applied.sock_connect = p.sock_connect
    /\ tmo.connect_end = "end" => tmo.applied.sock_read = p.sock_read

\* C23, as claimed: a full policy given to the call replaces the session's
\* policy; a bare duration replaces total only, and the connect,
\* socket-connect and socket-read values of the session's policy stay in
\* effect for the call.
C23_Original ==
    TmApplied =>
        /\ tmo.kind = "policy" => AppliedIs(tmo.arg)
        /\ tmo.kind = "duration" =>
              AppliedIs([tmo.session EXCEPT !.total = tmo.arg.total])

\* What the code does instead: a full policy given to the call replaces
\* the session's policy; a bare duration becomes a new policy with total
\* only, so for
\* that call connect, socket-connect and socket-read are unset whatever the
\* session's policy says, and no connect of the call ends in a connection
\* timeout; without the argument the session's policy applies.
PerCallTimeout ==
    TmApplied =>
        /\ tmo.kind = "policy" => AppliedIs(tmo.arg)
        /\ tmo.kind = "duration" =>
              /\ AppliedIs([NoPolicy EXCEPT !.total = tmo.arg.total])
              /\ tmo.outcome # "ServerTimeoutError"
        /\ tmo.kind = "sentinel" => AppliedIs(tmo.session)

\* reached: the session bounds a connect by 1 unit, the call is given
\* the bare duration 5, and a connect that takes 2 units completes
PerCallTimeoutWitness ==
    /\ tmo.kind = "duration" /\ tmo.arg.total = 5
    /\ tmo.session.connect = 1
    /\ tmo.connect_d = 2 /\ tmo.connect_end = "end"

\* the timed call runs with total = 1 and connect = 5
TmOneFive == tmo.real.total = 1 /\ tmo.real.connect = 5

\* C24, as claimed: with total = 1 and connect = 5 a connect phase that
\* takes 2 units succeeds, and the call fails when the time spent in
\* connects, hops and reading the body exceeds 1.
C24_Original ==
    TmOneFive =>
        /\ (tmo.connect_d = 2 /\ tmo.connect_end # "-") =>
              tmo.connect_end = "end"
        /\ (tmo.pc = "done" /\ tmo.now > 1) => tmo.outcome = "TimeoutError"

\* C24, amended: with total = 1 and connect = 5 a connect phase that needs
\* 2 units is not failed by the connect bound (no connection timeout), but
\* it does not complete either: the timer of the whole call stops it at 1
\* unit and the call fails with the timeout of the call.  Whatever the
\* phases need, no call runs past its total, and the call that is stopped
\* fails with TimeoutError; a call whose body was read to the end took at
\* most total.
C24_TimeoutComposition ==
    /\ TmOneFive =>
          /\ tmo.outcome # "ServerTimeoutError"
          /\ (tmo.connect_d = 2 /\ tmo.connect_end # "-") =>
                /\ tmo.connect_end = "total"
                /\ tmo.now = 1
                /\ tmo.outcome = "TimeoutError"
    /\ tmo.real.total # NoLimit =>
          /\ tmo.now <= tmo.real.total
          /\ (tmo.outcome = "ok" /\ tmo.consumed) =>
                tmo.now <= tmo.real.total

\* C24 witness: total = 1, connect = 5, the connect needs 2 units and is
\* stopped by the timer of the call at 1
C24_Witness ==
    /\ TmOneFive
    /\ tmo.connect_d = 2 /\ tmo.connect_end = "total"
    /\ tmo.now = 1 /\ tmo.outcome = "TimeoutError"

\* the events of a hop, in the order of the code
HopOrder == <<"filter", "connect", "send", "start", "update">>

\* C25: in every hop the jar is filtered for the URL of the hop before the
\* connection is acquired and the request is sent, and it is updated with
\* the cookies of the response, for the URL of the response, after the
\* response started and before the redirect test; so every cookie a
\* response has brought for a host, a redirect response included, is among
\* the cookies the next filter for that host finds, in the same call or in
\* another call on the session.
C25_CookieOrdering ==
    /\ \A r \in Tasks :
          LET t == ck.task[r]
          IN /\ Len(t.trail) <= Len(HopOrder)
             /\ t.trail = SubSeq(HopOrder, 1, Len(t.trail))
             /\ t.known \subseteq t.sent
             /\ t.pc \in {"connect", "send", "start"} =>
                   t.sent \ t.own \subseteq FilterCookies(ck.stored, t.host)
    /\ ck.jar = ck.stored

\* C25 witness: the second hop of a call sends a cookie, no other call has
\* been made, so the cookie is the one the redirect response of its first
\* hop brought
C25_Witness ==
    \E r \in Tasks :
       /\ ck.task[r].hop = 2 /\ <<"sid", "server">> \in ck.task[r].sent
       /\ \A o \in Tasks \ {r} : ck.task[o].pc = "idle"

\* C26: a verb hands its own method to _request; head called without
\* allow_redirects runs with redirects off, every other verb called without
\* it runs with redirects on, and a value the caller passes is used as it is;
\* so a default head call that succeeds has used one connection and has an
\* empty history, whatever the status of the response.
C26_VerbDefaults ==
    args.verb \in Verbs =>
       /\ req.hop >= 1 => req.method \in {VerbMethod(args.verb), "GET"}
       /\ req.hop = 1 => req.method = VerbMethod(args.verb)
       /\ ~args.passed => args.allow_redirects = (args.verb # "head")
       /\ (args.verb = "head" /\ ~args.passed) =>
              /\ conns <= 1
              /\ history = <<>>
              /\ redirects = 0
              /\ delivered[1].redirect = 0

\* C26 witness: a default head call got a redirect response with a Location
\* and returned it
C26_Witness ==
    /\ args.verb = "head" /\ ~args.passed
    /\ outcome = "ok"
    /\ resp.status = 302 /\ resp.loc # NoLocation
    /\ resp.state = "open"
    /\ conns = 1 /\ history = <<>>

\* the call is over, its last response has a redirect status and neither a
\* Location nor a URI header, and no observer has raised
NoLocationLast ==
    /\ pc = "done"
    /\ resp.status \in RedirectStatuses
    /\ resp.loc = NoLocation
    /\ \A o \in Observers : ~delivered[o].raised

\* the redirect branch ran for the last response and its counter reached the
\* limit
LimitReached ==
    /\ args.allow_redirects
    /\ args.max_redirects # 0
    /\ redirects >= args.max_redirects

\* C27 as stated: every redirect response without Location and URI ends the
\* call without an error, with no further connection, and is returned to the
\* caller neither released nor closed.
C27_Original ==
    NoLocationLast =>
       /\ outcome = "ok"
       /\ resp.state = "open"
       /\ resp.id = conns

\* C27: a redirect response without Location and URI that does not bring the
\* redirect counter to the limit ends the call without an error, with no
\* further connection, and is returned neither released nor closed; one that
\* brings the counter to the limit is closed and the call fails with
\* TooManyRedirects, because the limit is tested before the headers are read.
C27_NoLocationFinal ==
    NoLocationLast =>
       /\ resp.id = conns
       /\ ~LimitReached =>
             /\ outcome = "ok"
             /\ exc = "-"
             /\ resp.state = "open"
       /\ LimitReached =>
             /\ outcome = "TooManyRedirects"
             /\ resp.state = "closed"

\* C27 witness: the redirect branch ran for a response without Location,
\* below the limit, and the call returned it
C27_Witness ==
    /\ NoLocationLast
    /\ args.allow_redirects /\ args.max_redirects = 2 /\ redirects = 1
    /\ outcome = "ok"
    /\ resp.state = "open"

\* C28: when a call succeeds, the history attached to the response it returns
\* holds the responses whose redirects were followed, in hop order, and never
\* the returned response itself, also when the returned response has a
\* redirect status and neither Location nor URI.
C28_HistoryIntegrity ==
    outcome = "ok" =>
       /\ \A i \in 1..Len(history) : history[i] # resp.id
       /\ history = [i \in 1..(conns - 1) |-> i]

\* the redirect branch raised for the last response: the limit was reached,
\* or the target has a scheme that is not http, https or empty
RedirectLoopError ==
    /\ pc \in {"trace_exception", "done"}
    /\ \/ exc = "TooManyRedirects"
       \/ /\ exc = "ValueError"
          /\ resp.status \in RedirectStatuses
          /\ resp.loc # NoLocation
          /\ resp.loc.scheme \notin {"http", "https", ""}

\* C29: from the moment the redirect branch raises TooManyRedirects or the
\* error for a target scheme other than http, https and empty, the response
\* that caused it is closed and it is the response of the last connection
\* the call acquired.
C29_RedirectErrorsClose ==
    RedirectLoopError =>
       /\ resp.state = "closed"
       /\ resp.id = conns
       /\ pc = "done" => outcome \in {exc, "ObserverError"}

\* C29 witness: a redirect to an ftp target failed the call
C29_Witness ==
    /\ RedirectLoopError
    /\ pc = "done" /\ outcome = "ValueError"
    /\ resp.loc.scheme = "ftp"
    /\ resp.state = "closed"

\* C30: when a call whose timer handle was started ends with an error, the
\* handle has been cancelled by the time the caller gets the error, wherever
\* the error arose, an on_request_start observer included.
C30_FailureCancelsScope ==
    (pc = "done" /\ outcome \notin {"-", "ok"}) => handle # "armed"

\* C31: a call with a total timeout that returns a response holding a
\* connection leaves the timer handle armed at the return, and the handle is
\* cancelled when that connection is released or closed; if the response
\* holds no connection when the loop ends, the handle is cancelled before the
\* end signal and the return.
C31_ScopeOnSuccess ==
    args.total =>
       /\ (pc = "done" /\ outcome = "ok") =>
             /\ conn = "open" => handle = "armed"
             /\ conn # "open" => handle = "cancelled"
       /\ (pc = "trace_end" /\ conn # "open") => handle = "cancelled"
       /\ (pc = "trace_end" /\ conn = "open") => handle = "armed"

\* C31 witness: the returned response held its connection, the caller has
\* released it since, and the handle is cancelled
C31_Witness ==
    /\ args.total
    /\ pc = "done" /\ outcome = "ok"
    /\ resp.state = "released" /\ conn = "released"
    /\ handle = "cancelled"

NoObserverRaised == \A o \in Observers : ~delivered[o].raised

\* C32 as stated: at every point the redirect counter equals the length of
\* the history and, while no observer has raised, the number of redirect
\* signals delivered to each observer.
C32_Original ==
    /\ redirects = Len(history)
    /\ NoObserverRaised =>
          \A o \in Observers : delivered[o].redirect = redirects

\* C32: the redirect counter always equals the length of the history.  While
\* no observer has raised, each observer has got one redirect signal per
\* counted response, carrying the method, URL and headers of the request
\* that produced the response; the signals of a response go out before it
\* is counted, so while they are being sent the observers already served
\* are one ahead of the counter; every connection after the first is
\* acquired after all observers got the signal of the response before it.
C32_RedirectEvents ==
    /\ redirects = Len(history)
    /\ NoObserverRaised =>
          \A o \in Observers :
             /\ delivered[o].redirect =
                   IF (pc = "trace_redirect" /\ o < traceIdx)
                      \/ pc = "redirect"
                   THEN redirects + 1 ELSE redirects
             /\ (pc = "trace_redirect" /\ o < traceIdx) \/ pc = "redirect" =>
                   /\ delivered[o].method = resp.method
                   /\ delivered[o].method = req.method
                   /\ delivered[o].host = req.host
                   /\ delivered[o].headers = req.headers
             /\ conns >= 1 /\ pc \notin {"trace_redirect", "redirect"} =>
                   delivered[o].redirect >= conns - 1

\* C32 witness: the loop is about to acquire the connection of the second
\* hop and every observer has got the redirect signal of the first response
C32_Witness ==
    /\ pc = "connect" /\ conns = 1 /\ redirects = 1
    /\ NoObserverRaised
    /\ \A o \in Observers : delivered[o].redirect = 1

\* the names of a set of cookies
Names(cookies) == {c[1] : c \in cookies}

\* C33: the request of a hop is built with the call's value for every name
\* that is both in the jar's cookies for the URL and in the cookies of the
\* call, and with its own value for every name in only one of the two; the
\* jar holds only what responses have brought, never a cookie of the call.
C33_CallCookiesWin ==
    LET t == ck.task[1]
        all == FilterCookies(ck.jar, t.host)
    IN /\ t.pc \in {"connect", "send", "start"} =>
             /\ t.own \subseteq t.sent
             /\ \A c \in all :
                   IF c[1] \in Names(t.own) THEN c \notin t.sent
                   ELSE c \in t.sent
             /\ t.sent \subseteq all \cup t.own
             /\ \A c \in t.sent, d \in t.sent : c[1] = d[1] => c = d
       /\ ck.jar = ck.stored
       /\ \A x \in ck.jar : x[2] \in CookieNames

\* C33 witness: the jar holds sid for the host of the second hop, the call
\* passed its own sid, and the request of the second hop carries the call's
C33_Witness ==
    LET t == ck.task[1]
    IN /\ t.pc = "connect" /\ t.hop = 2
       /\ <<t.host, <<"sid", "server">>>> \in ck.jar
       /\ <<"sid", "caller">> \in t.own
       /\ <<"sid", "caller">> \in t.sent
       /\ <<"sid", "server">> \notin t.sent

\* the handshake request succeeded and the status, upgrade, connection and
\* accept checks passed
WsChecksPassed ==
    /\ ws.pc = "done" /\ outcome = "ok"
    /\ wsResult.message \notin
          {"Invalid response status", "Invalid upgrade header",
           "Invalid connection header", "Invalid challenge response"}
    /\ wsResult.status # 0

\* C34: compression asked for and no Sec-WebSocket-Extensions header in the
\* response: the connection is set up with compress 0 and notakeover false;
\* asked for and header present: the parsed window and takeover flag are
\* used, and a header the parser rejects fails the handshake with
\* WSServerHandshakeError; not asked for: compress stays 0 whatever the
\* header says.
C34_CompressionNegotiation ==
    LET ext == wsResult.headers.extensions
    IN /\ wsResult.outcome = "ok" =>
             /\ ws.compress = 0 =>
                   wsResult.compress = 0 /\ ~wsResult.notakeover
             /\ (ws.compress # 0 /\ ext = "") =>
                   wsResult.compress = 0 /\ ~wsResult.notakeover
             /\ (ws.compress # 0 /\ ext = "permessage-deflate") =>
                   wsResult.compress = 15 /\ ~wsResult.notakeover
             /\ (ws.compress # 0
                 /\ ext = "permessage-deflate; client_no_context_takeover") =>
                   wsResult.compress = 15 /\ wsResult.notakeover
             /\ ws.compress # 0 =>
                   ext # "permessage-deflate; client_max_window_bits=7"
       /\ (WsChecksPassed /\ ws.compress # 0
           /\ ext = "permessage-deflate; client_max_window_bits=7") =>
             /\ wsResult.outcome = "WSServerHandshakeError"
             /\ wsResult.message = "Invalid window size"

\* C34 witness: compression was asked for, the server sent no extensions
\* header, and the handshake succeeded with compression off
C34_Witness ==
    /\ wsResult.outcome = "ok"
    /\ ws.compress = 15
    /\ wsResult.headers.extensions = ""
    /\ wsResult.compress = 0 /\ ~wsResult.notakeover

\* C35: the loop raises the error for auth combined with credentials in the
\* URL only in calls that were given an auth argument, on the first hop and
\* on every later one.
C35_AuthWithUrlCredentials ==
    [][(/\ pc = "prepare"
        /\ auth # "None" /\ url.userinfo
        /\ exc' = "ValueError") => args.auth]_vars

\* C36: when a call ends with an error, the connection of its last hop has
\* been closed or released (those of earlier hops were released when their
\* redirects were followed), whichever step failed.
C36_NoLeakOnFailure ==
    (pc = "done" /\ outcome \notin {"-", "ok"}) => conn # "open"

\* C37, as claimed: for every max_redirects value, 0 included, a call that
\* has started ends (returns or raises), whatever the server answers.
C37_Original ==
    (pc # "idle") ~> (pc = "done")

\* C37: with a redirect limit N >= 1 a call never acquires more than N
\* connections and, provided each awaited operation returns, it ends, even
\* when the server answers every hop with a redirect that has a Location.
\* (With max_redirects = 0 the limit test is off and the loop goes on for
\* as long as the server redirects.)
C37_LoopTerminates ==
    /\ [](args.max_redirects >= 1 => conns <= args.max_redirects)
    /\ (pc # "idle" /\ args.max_redirects >= 1) ~> (pc = "done")

\* a server that redirected every hop of a call with limit 2: the call
\* ended at the second response
C37_Witness ==
    /\ args.max_redirects = 2 /\ args.allow_redirects
    /\ pc = "done" /\ exc = "TooManyRedirects"
    /\ redirects = 2 /\ conns = 2 /\ resp.loc # NoLocation

\* C38: on every success path the method given to on_request_end is the
\* method of the request that produced the returned response.
C38_EndMethod ==
    (pc = "done" /\ outcome = "ok") =>
        \A o \in Observers : delivered[o].method = resp.method

\* C39: requests never change the session's defaults, and no request sees
\* the headers of another: whatever the calls of _request on one session
\* do to their headers (observers adding entries, Content-Length popped on
\* a downgrade, Authorization popped on leaving the origin), the session's
\* default headers and default auth stay as they were, each call has a
\* header object of its own, and the headers a call sends carry no entry
\* added for another call.
C39_DefaultsUntouched ==
    /\ [][/\ hd'.heap[DefaultsObj] = hd.heap[DefaultsObj]
          /\ default_auth' = default_auth]_vars
    /\ [](\A r \in Tasks :
            hd.task[r].pc \notin {"idle", "done"} =>
              /\ hd.task[r].ref # DefaultsObj
              /\ \A q \in Tasks \ {r} :
                    hd.task[q].pc \notin {"idle", "done"} =>
                        hd.task[q].ref # hd.task[r].ref
              /\ hd.task[r].sent.marks \subseteq {r})

\* two calls run on a session whose defaults have Content-Length and
\* Authorization: an observer edited the headers of one, the other popped
\* both entries on a redirect and sent its next hop without them
C39_Witness ==
    /\ hd.heap[DefaultsObj] = [cl |-> "set", authz |-> TRUE, marks |-> {}]
    /\ hd.task[1].pc = "response" /\ hd.task[1].sent.marks = {1}
    /\ hd.task[2].pc = "response" /\ hd.task[2].sent.marks = {}
    /\ hd.task[2].sent.cl = "absent" /\ ~hd.task[2].sent.authz

\* C40: close() calls may overlap at the await of connector.close(): the
\* session calls connector.close() at most once however its close() calls
\* interleave, and once overlapping close() calls on a session that owns
\* its connector (one nobody else has closed) have all returned, the
\* session is closed and session.connector is None.
C40_ConcurrentClose ==
    /\ teardowns <= 1
    /\ (/\ connector_owner /\ ~log.closedOutside
        /\ log.overlapped /\ NoCloseRunning) =>
          (Closed /\ connector = NoConnector)

\* a close() was called while another awaited connector.close(); both have
\* returned and the connector was torn down once
C40_Witness ==
    /\ connector_owner /\ ~log.closedOutside /\ ~log.detached
    /\ log.overlapped /\ NoCloseRunning /\ log.closes = 2
    /\ teardowns = 1 /\ connectorClosed /\ connector = NoConnector

====
